---- MODULE Spec2Model ----
(***************************************************************************)
(* Model of the lefocus session controller (timer/controller.rs,           *)
(* timer/state.rs, sensing/controller.rs, db/repositories/sessions.rs), of *)
(* the segmentation engine (segmentation/algorithm.rs, merge.rs,           *)
(* scoring.rs) and of the capture loop (sensing/loop_worker.rs).           *)
(*                                                                         *)
(* Time is counted in ticker periods (tick_interval = 1 s); target_ms and  *)
(* active_ms are counted in the same unit.  An Instant is read only through*)
(* elapsed(), so it is represented by the time elapsed since it was taken. *)
(* An Option<T> is a sequence of length 0 (None) or 1 (Some).              *)
(***************************************************************************)
EXTENDS Integers, Sequences, FiniteSets, TLC

\* ---------------------------------------------------------------- bounds
NumCallers == 2
MaxTime == 2
MaxSessions == 2
MaxTarget == 1
MaxPending == 1
MaxOverlaps == 1
MaxReadings == 7
LongGap == 65
MaxRun == 7
MaxSegments == 5
MaxProfiled == 4
MaxClock == 20
MaxCaptured == 1
MaxStored == 2
ClockStep == 5
MaxCommands == 3

Callers == 1..NumCallers
SessionIds == 1..MaxSessions
\* the modes sessions are started in: the deadline-bound mode and the break
\* mode.  A Stopwatch session (target i64::MAX) never reaches the completion edge
\* and is otherwise handled like a Countdown session.
Modes == {"Countdown", "Break"}

None == << >>
Some(x) == << x >>
IsSome(o) == Len(o) = 1
Unwrap(o) == o[1]

\* i64::MAX, the stopwatch target; represented by the largest integer of the checker
I64_MAX == 2147483647

VARIABLES
    st,              \* TimerController.state : Mutex<TimerState>
    db,              \* sessions table: session id -> row
    segmentsFor,     \* session ids for which end_timer persisted its segmentation
    sensing,         \* SensingController.handle : Option<session id of the capture loop>
    tickerHandle,    \* TimerController.ticker : Option<ticker task>
    tickers,         \* ticker tasks, one per started session
    pending,         \* spawned update_session_progress writes not yet executed
    call,            \* per caller: the command in progress and its locals
    nextSid,         \* next fresh session id (Uuid::new_v4)
    overlaps,        \* commands invoked so far while another command was in progress
    returned,        \* result of the command that returned in the last step, or "none"
    emitted,         \* the last step sent a state or session notification to the UI
    readings,        \* segment_session's input: one session's ordered readings
    segOut,          \* segment_session's position and locals, and what it returns
    earlier,         \* what an earlier run of segment_session on these readings returned
    capture,         \* the sensing_loop task: its position, its interval and its tick
    cancelled,       \* the CancellationToken shared by the controller and the loop
    stopping,        \* stop_sensing's position
    now,             \* the wall clock, in seconds since the loop was spawned
    context_readings,\* context_readings table: the rows in the order of their INSERTs
    dbQueue,         \* INSERTs sent to the database worker and not yet executed
    loops,           \* per session: its capture loop task
    loadedFor,       \* per session: how many readings end_timer loaded for segmentation
    segments_table,  \* segments table: the committed rows
    interruptions_table, \* interruptions table: the committed rows
    tx,              \* the transaction open on the database worker's connection
    storeReturned,   \* what the store call that returned in the last step returned, or "none"
    lastRunOcr,      \* history of the loop: the time since run_ocr was last called, and
                     \* the time between its last two calls
    command_rx,      \* the channel of the database worker: the commands sent and not yet taken
    worker_task,     \* the command the worker thread is executing, if any
    conn_log,        \* the commands the connection has executed, in order
    reply_rx,        \* the oneshot channel of each command
    execCalls        \* per caller of Database::execute: its position and what it was returned

timerVars == << st, db, segmentsFor, sensing, tickerHandle, tickers, pending,
                call, nextSid, overlaps, returned, emitted >>
segVars == << readings, segOut, earlier >>
loopVars == << capture, cancelled, stopping, now, context_readings, dbQueue, loops, loadedFor >>
storeVars == << segments_table, interruptions_table, tx, storeReturned >>
gateVars == << lastRunOcr >>
workerVars == << command_rx, worker_task, conn_log, reply_rx, execCalls >>
vars == << timerVars, segVars, loopVars, storeVars, gateVars, workerVars >>

\* ------------------------------------------------------------ TimerState
TimerStateDefault ==
    [status |-> "Idle", session_id |-> None, target_ms |-> 0, active_ms |-> 0,
     active_ms_baseline |-> 0, running_anchor |-> None, mode |-> "Countdown"]

current_active_ms(s) ==
    IF s.status = "Running" /\ IsSome(s.running_anchor)
    THEN s.active_ms_baseline + Unwrap(s.running_anchor)
    ELSE s.active_ms

remaining_ms(s) ==
    IF s.status \in {"Idle", "Stopped"} THEN 0
    ELSE LET remaining == s.target_ms - current_active_ms(s)
         IN IF remaining > 0 THEN remaining ELSE 0

sync_active_from_anchor(s) ==
    IF s.status = "Running" /\ IsSome(s.running_anchor)
    THEN [s EXCEPT !.active_ms = s.active_ms_baseline + Unwrap(s.running_anchor)]
    ELSE s

begin_session(sid, target, mode) ==
    [status |-> "Running", session_id |-> Some(sid), target_ms |-> target,
     active_ms |-> 0, active_ms_baseline |-> 0, running_anchor |-> Some(0),
     mode |-> mode]

stop(s) ==
    LET y == sync_active_from_anchor(s)
    IN [y EXCEPT !.status = "Stopped", !.running_anchor = None,
                 !.active_ms_baseline = y.active_ms]

cancel(s) == TimerStateDefault

Min(a, b) == IF a < b THEN a ELSE b

\* variant of the completion edge without the clamp
clamp_active_none(s) == s
\* the clamp of the completion edge: guard.active_ms = guard.active_ms.min(guard.target_ms)
clamp_active(s) == [s EXCEPT !.active_ms = Min(s.active_ms, s.target_ms)]

\* ------------------------------------------------------------ callers
CallIdle ==
    [pc |-> "idle", sid |-> None, target |-> 0, mode |-> "Countdown", active |-> 0,
     joining |-> None]

Ret(p) == [call EXCEPT ![p] = CallIdle]

\* what the last step let the outside see: a command's result, a notification
Obs(r, e) == returned' = r /\ emitted' = e
Quiet == Obs("none", FALSE)

\* some command is between its first and its last step
InProgress == \E q \in Callers : call[q].pc # "idle"

\* a caller invokes a command: idle callers are interchangeable, so the lowest
\* idle one takes it; invocations that overlap a command in progress are counted
Invoke(p) ==
    /\ \A q \in Callers : q < p => call[q].pc # "idle"
    /\ InProgress => overlaps < MaxOverlaps
    /\ overlaps' = IF InProgress THEN overlaps + 1 ELSE overlaps

\* ------------------------------------------------------------ tickers
\* a ticker task: "none" (not running: never spawned, returned or dropped),
\* "wait" (parked on interval.tick()), "stopping" (between the two critical
\* sections of the completion edge), "stop_sensing" (after the second one),
\* "join" (inside stop_sensing, waiting for the capture loop `joining`)
TickerNone ==
    [pc |-> "none", aborted |-> FALSE, final |-> TimerStateDefault, joining |-> None]

TickerDone == TickerNone

\* JoinHandle::abort (controller.rs 438-440, 547-549): a task parked on
\* interval.tick() or on the join of the capture loop is dropped at once (and
\* with it the lock and the handle it holds); a task that is being polled is
\* dropped at its next suspension point, if it reaches one
Abort(tk, h) ==
    IF ~IsSome(h) THEN tk
    ELSE IF tk[Unwrap(h)].pc \in {"wait", "join"} THEN [tk EXCEPT ![Unwrap(h)] = TickerDone]
    ELSE IF tk[Unwrap(h)].pc \in {"stopping", "stop_sensing"}
         THEN [tk EXCEPT ![Unwrap(h)].aborted = TRUE]
    ELSE tk

\* ------------------------------------------------------------ Init
TimerInit ==
    /\ st = TimerStateDefault
    /\ db = << >>
    /\ segmentsFor = {}
    /\ sensing = None
    /\ tickerHandle = None
    /\ tickers = [t \in SessionIds |-> TickerNone]
    /\ pending = {}
    /\ call = [p \in Callers |-> CallIdle]
    /\ nextSid = 1
    /\ overlaps = 0
    /\ returned = "none"
    /\ emitted = FALSE

SegStart ==
    [pc |-> "start", groups |-> << >>, segments_with_readings |-> << >>,
     segments |-> << >>, interruptions |-> << >>]

SegIdle ==
    /\ earlier = None
    /\ readings = << >>
    /\ segOut = SegStart

\* no capture loop has been spawned
CaptureNone ==
    [pc |-> "none", until_tick |-> 0, tick_elapsed |-> 0, outcome |-> "none",
     session_id |-> 0, timestamp |-> 0, bundle_id |-> "", screenshot_bytes |-> 0,
     phash |-> None,
     ocr_text |-> None, last_sampled_phash |-> None, last_ocr_phash |-> None,
     last_ocr_time |-> None]

LoopIdle ==
    /\ capture = CaptureNone
    /\ cancelled = FALSE
    /\ stopping = "idle"
    /\ now = 0
    /\ context_readings = << >>
    /\ dbQueue = << >>
    /\ loops = [s \in SessionIds |-> "none"]
    /\ loadedFor = [s \in SessionIds |-> None]

\* no transaction is open
TxNone ==
    [pc |-> "none", op |-> "none", session_id |-> 0,
     segments |-> << >>, interruptions |-> << >>, i |-> 1,
     segments_table |-> {}, interruptions_table |-> {}]

StoreIdle ==
    /\ segments_table = {}
    /\ interruptions_table = {}
    /\ tx = TxNone
    /\ storeReturned = "none"

\* run_ocr has not been called
GateIdle == lastRunOcr = [since |-> None, gap |-> None]

\* db/mod.rs 89-152 Database::new: the worker thread waits on an empty channel;
\* nobody has called execute
WorkerIdle ==
    /\ command_rx = << >>
    /\ worker_task = None
    /\ conn_log = << >>
    /\ reply_rx = [c \in 1..MaxCommands |-> [state |-> "none", value |-> None]]
    /\ execCalls = [p \in Callers |-> [pc |-> "idle", command |-> None, returned |-> << >>]]

Init == TimerInit /\ SegIdle /\ LoopIdle /\ StoreIdle /\ GateIdle /\ WorkerIdle

\* time passes: the elapsed() of the stored Instant grows by one period
Advance ==
    /\ IsSome(st.running_anchor)
    /\ Unwrap(st.running_anchor) < MaxTime
    /\ st' = [st EXCEPT !.running_anchor = Some(Unwrap(st.running_anchor) + 1)]
    /\ Quiet
    /\ UNCHANGED << db, segmentsFor, sensing, tickerHandle, tickers, pending, call, nextSid, overlaps, segVars, storeVars, gateVars, workerVars, loopVars >>

\* ------------------------------------------------------------ start_timer
\* variant of the Idle check that rejects only a Running controller
StartRejectedRunningOnly(s) == s.status = "Running"
\* controller.rs 121-126: the Idle check under the state lock
StartRejected(s) == s.status # "Idle"

\* sessions.rs 37-61 insert_session, called at controller.rs 133-146
insert_session(d, sid, target) ==
    (sid :> [status |-> "Running", target_ms |-> target, active_ms |-> 0,
             stopped_at |-> None]) @@ d

\* controller.rs 96-147: mode/target validation, the Idle check under the lock,
\* the fresh session id and (skipped in break mode) the session insert, whose
\* failure ends the call
StartCheck(p, target, mode, inserted) ==
    /\ call[p].pc = "idle"
    /\ Invoke(p)
    /\ IF target = 0 /\ mode \in {"Countdown", "Break"}
       THEN /\ Obs("start_err_target", FALSE)
            /\ UNCHANGED << call, nextSid, db >>
       ELSE IF StartRejected(st)
       THEN /\ Obs("start_err_active", FALSE)
            /\ UNCHANGED << call, nextSid, db >>
       ELSE IF mode # "Break" /\ ~inserted
       THEN /\ Obs("start_err_insert", FALSE)
            /\ UNCHANGED << call, nextSid, db >>
       ELSE /\ nextSid <= MaxSessions
            /\ call' = [call EXCEPT ![p] =
                    [CallIdle EXCEPT !.pc = "start_begin",
                                     !.sid = Some(nextSid),
                                     !.target = IF mode = "Stopwatch" THEN I64_MAX ELSE target,
                                     !.mode = mode]]
            /\ nextSid' = nextSid + 1
            /\ db' = IF mode = "Break" THEN db
                     ELSE insert_session(db, nextSid, IF mode = "Stopwatch" THEN I64_MAX ELSE target)
            /\ Quiet
    /\ UNCHANGED << st, segmentsFor, sensing, tickerHandle, tickers, pending, segVars, storeVars, gateVars, workerVars, loopVars >>

\* controller.rs 149-159
StartBegin(p) ==
    /\ call[p].pc = "start_begin"
    /\ st' = begin_session(Unwrap(call[p].sid), call[p].target, call[p].mode)
    /\ call' = [call EXCEPT ![p].pc = IF call[p].mode = "Break" THEN "start_ticker" ELSE "start_sensing",
                            ![p].target = 0, ![p].mode = "Countdown"]
    /\ Quiet
    /\ UNCHANGED << db, segmentsFor, sensing, tickerHandle, tickers, pending, nextSid, overlaps, segVars, storeVars, gateVars, workerVars, loopVars >>

\* the Mutex of the SensingController is held by the task that waits inside
\* stop_sensing for the capture loop to end (controller.rs 259, 411, 485)
SensingLocked ==
    \/ \E q \in Callers : call[q].pc \in {"end_join", "cancel_join"}
    \/ \E t \in SessionIds : tickers[t].pc = "join"

loopRestOfTimer == << capture, cancelled, stopping, now, dbQueue >>

\* controller.rs 161-173 and sensing/controller.rs 27-50 start_sensing: the capture
\* loop of the session is spawned unless a handle is held
StartSensing(p) ==
    /\ call[p].pc = "start_sensing"
    /\ ~SensingLocked
    /\ IF IsSome(sensing)
       THEN /\ call' = Ret(p)
            /\ Obs("start_err_sensing", FALSE)
            /\ UNCHANGED << sensing, loops >>
       ELSE /\ sensing' = call[p].sid
            /\ loops' = [loops EXCEPT ![Unwrap(call[p].sid)] = "running"]
            /\ call' = [call EXCEPT ![p].pc = "start_ticker"]
            /\ Quiet
    /\ UNCHANGED << st, db, segmentsFor, tickerHandle, tickers, pending, nextSid, overlaps, segVars, storeVars, gateVars, workerVars,
                    loopRestOfTimer, context_readings, loadedFor >>

\* controller.rs 436-450, 543: abort the old ticker, spawn the new one
spawn_ticker(tk, h, t) ==
    [Abort(tk, h) EXCEPT ![t] = [TickerNone EXCEPT !.pc = "wait"]]

StartSpawnTicker(p) ==
    /\ call[p].pc = "start_ticker"
    /\ tickers' = spawn_ticker(tickers, tickerHandle, Unwrap(call[p].sid))
    /\ tickerHandle' = call[p].sid
    /\ call' = [call EXCEPT ![p].pc = "start_anchor"]
    /\ Quiet
    /\ UNCHANGED << st, db, segmentsFor, sensing, pending, nextSid, overlaps, segVars, storeVars, gateVars, workerVars, loopVars >>

\* controller.rs 177-210: reset the anchor under the lock, emit_state_changed,
\* return get_state
StartAnchor(p) ==
    /\ call[p].pc = "start_anchor"
    /\ st' = sync_active_from_anchor(
                [st EXCEPT !.running_anchor = Some(0), !.active_ms_baseline = 0, !.active_ms = 0])
    /\ call' = Ret(p)
    /\ Obs("start_ok", TRUE)
    /\ UNCHANGED << db, segmentsFor, sensing, tickerHandle, tickers, pending, nextSid, overlaps, segVars, storeVars, gateVars, workerVars, loopVars >>

\* ------------------------------------------------------------ end_timer
\* sessions.rs 83-111 mark_session_status: UPDATE ... WHERE id = ?, with the
\* stopped_at = Some(Utc::now()) of its callers (controller.rs 285-293, 420-431)
mark_session_status(d, sid, status, active) ==
    IF sid \in DOMAIN d
    THEN [d EXCEPT ![sid].status = status, ![sid].active_ms = active,
                   ![sid].stopped_at = Some(now)]
    ELSE d

\* sensing/controller.rs 60-73 stop_sensing: the handle is taken
stop_sensing(h) == None

\* sensing/controller.rs 61-63: the token of the loop whose handle is held is
\* cancelled
cancel_token(l, h) == IF IsSome(h) THEN [l EXCEPT ![Unwrap(h)] = "cancelled"] ELSE l

\* sensing/controller.rs 65-69: the loop whose handle was taken has ended
Joined(h) == IsSome(h) => loops[Unwrap(h)] = "none"

\* controller.rs 546-550 cancel_ticker
cancel_ticker(tk, h) == Abort(tk, h)

\* variant of the check of end_timer that accepts only a Running controller
EndAcceptedRunningOnly(s) == s.status = "Running"
\* controller.rs 218-220: end_timer goes on unless the status is Idle
EndAccepted(s) == s.status # "Idle"

\* controller.rs 235: the active_ms end_timer persists
end_active_ms(s) == Min(current_active_ms(sync_active_from_anchor(s)), s.target_ms)

\* controller.rs 216-255: the Idle check and the state reset, under one lock
EndLock(p) ==
    /\ call[p].pc = "idle"
    /\ Invoke(p)
    /\ IF ~EndAccepted(st)
       THEN /\ Obs("end_err_idle", FALSE)
            /\ UNCHANGED << st, call >>
       ELSE IF ~IsSome(st.session_id)
       THEN /\ Obs("end_err_missing", FALSE)
            /\ st' = sync_active_from_anchor(st)
            /\ UNCHANGED call
       ELSE /\ call' = [call EXCEPT ![p] =
                    [CallIdle EXCEPT !.pc = IF st.mode = "Break" THEN "end_ticker" ELSE "end_sensing",
                                     !.sid = st.session_id,
                                     !.mode = st.mode,
                                     !.active = end_active_ms(st)]]
            /\ st' = cancel(stop(sync_active_from_anchor(st)))
            /\ Quiet
    /\ UNCHANGED << db, segmentsFor, sensing, tickerHandle, tickers, pending, nextSid, segVars, storeVars, gateVars, workerVars, loopVars >>

\* controller.rs 257-260 and sensing/controller.rs 60-67: under the lock of the
\* SensingController the token is cancelled and the handle taken; without a
\* handle stop_sensing returns at once
EndStopSensing(p) ==
    /\ call[p].pc = "end_sensing"
    /\ ~SensingLocked
    /\ sensing' = stop_sensing(sensing)
    /\ loops' = cancel_token(loops, sensing)
    /\ call' = [call EXCEPT ![p].pc = IF IsSome(sensing) THEN "end_join" ELSE "end_ticker",
                            ![p].joining = sensing]
    /\ Quiet
    /\ UNCHANGED << st, db, segmentsFor, tickerHandle, tickers, pending, nextSid, overlaps, segVars, storeVars, gateVars, workerVars,
                    loopRestOfTimer, context_readings, loadedFor >>

\* sensing/controller.rs 65-69: the capture loop has ended, stop_sensing returns
EndJoin(p) ==
    /\ call[p].pc = "end_join"
    /\ Joined(call[p].joining)
    /\ call' = [call EXCEPT ![p].pc = "end_ticker", ![p].joining = None]
    /\ Quiet
    /\ UNCHANGED << st, db, segmentsFor, sensing, tickerHandle, tickers, pending, nextSid, overlaps, segVars, storeVars, gateVars, workerVars, loopVars >>

\* controller.rs 261-283: cancel_ticker; in break mode emit and return
EndCancelTicker(p) ==
    /\ call[p].pc = "end_ticker"
    /\ tickers' = cancel_ticker(tickers, tickerHandle)
    /\ tickerHandle' = None
    /\ IF call[p].mode = "Break"
       THEN /\ st' = sync_active_from_anchor(st)
            /\ call' = Ret(p)
            /\ Obs("end_ok_break", TRUE)
       ELSE /\ call' = [call EXCEPT ![p].pc = "end_mark"]
            /\ UNCHANGED st
            /\ Quiet
    /\ UNCHANGED << db, segmentsFor, sensing, pending, nextSid, overlaps, segVars, storeVars, gateVars, workerVars, loopVars >>

\* context_readings.rs 60-84 get_context_readings_for_session: the rows of the
\* session (ORDER BY timestamp, the order in which a session's rows are inserted)
get_context_readings_for_session(rows, sid) ==
    SelectSeq(rows, LAMBDA r : r.session_id = sid)

\* controller.rs 285-384: mark the session Completed, load the readings,
\* segment them and persist the segments and interruptions, emit_state_changed,
\* get_session, emit_session_completed.  `persisted` is the outcome of
\* insert_segments_and_interruptions: its error is logged (controller.rs 306-335)
\* and end_timer goes on to return the session
EndMark(p, persisted) ==
    /\ call[p].pc = "end_mark"
    /\ db' = mark_session_status(db, Unwrap(call[p].sid), "Completed", call[p].active)
    /\ loadedFor' = [loadedFor EXCEPT ![Unwrap(call[p].sid)] =
            Some(Len(get_context_readings_for_session(context_readings, Unwrap(call[p].sid))))]
    /\ segmentsFor' = IF persisted THEN segmentsFor \cup {Unwrap(call[p].sid)} ELSE segmentsFor
    /\ st' = sync_active_from_anchor(st)
    /\ call' = Ret(p)
    /\ Obs("end_ok", TRUE)
    /\ UNCHANGED << sensing, tickerHandle, tickers, pending, nextSid, overlaps, segVars, storeVars, gateVars, workerVars,
                    loopRestOfTimer, context_readings, loops >>

\* ------------------------------------------------------------ cancel_timer
\* controller.rs 391-397: cancel_timer goes on unless the status is Idle
CancelAccepted(s) == s.status # "Idle"

\* controller.rs 389-407
CancelLock(p) ==
    /\ call[p].pc = "idle"
    /\ Invoke(p)
    /\ IF ~CancelAccepted(st)
       THEN /\ Obs("cancel_ok_idle", FALSE)
            /\ UNCHANGED << st, call >>
       ELSE IF ~IsSome(st.session_id)
       THEN /\ Obs("cancel_err_missing", FALSE)
            /\ st' = sync_active_from_anchor(st)
            /\ UNCHANGED call
       ELSE /\ call' = [call EXCEPT ![p] =
                    [CallIdle EXCEPT !.pc = IF st.mode = "Break" THEN "cancel_ticker" ELSE "cancel_sensing",
                                     !.sid = st.session_id,
                                     !.mode = st.mode,
                                     !.active = sync_active_from_anchor(st).active_ms]]
            /\ st' = cancel(sync_active_from_anchor(st))
            /\ Quiet
    /\ UNCHANGED << db, segmentsFor, sensing, tickerHandle, tickers, pending, nextSid, segVars, storeVars, gateVars, workerVars, loopVars >>

\* controller.rs 409-412 and sensing/controller.rs 60-67
CancelStopSensing(p) ==
    /\ call[p].pc = "cancel_sensing"
    /\ ~SensingLocked
    /\ sensing' = stop_sensing(sensing)
    /\ loops' = cancel_token(loops, sensing)
    /\ call' = [call EXCEPT ![p].pc = IF IsSome(sensing) THEN "cancel_join" ELSE "cancel_ticker",
                            ![p].joining = sensing]
    /\ Quiet
    /\ UNCHANGED << st, db, segmentsFor, tickerHandle, tickers, pending, nextSid, overlaps, segVars, storeVars, gateVars, workerVars,
                    loopRestOfTimer, context_readings, loadedFor >>

\* sensing/controller.rs 65-69: the capture loop has ended, stop_sensing returns
CancelJoin(p) ==
    /\ call[p].pc = "cancel_join"
    /\ Joined(call[p].joining)
    /\ call' = [call EXCEPT ![p].pc = "cancel_ticker", ![p].joining = None]
    /\ Quiet
    /\ UNCHANGED << st, db, segmentsFor, sensing, tickerHandle, tickers, pending, nextSid, overlaps, segVars, storeVars, gateVars, workerVars, loopVars >>

\* controller.rs 413
CancelTicker(p) ==
    /\ call[p].pc = "cancel_ticker"
    /\ tickers' = cancel_ticker(tickers, tickerHandle)
    /\ tickerHandle' = None
    /\ call' = [call EXCEPT ![p].pc = "cancel_mark"]
    /\ Quiet
    /\ UNCHANGED << st, db, segmentsFor, sensing, pending, nextSid, overlaps, segVars, storeVars, gateVars, workerVars, loopVars >>

\* controller.rs 420-433: mark Cancelled (skipped in break mode), emit_state_changed
CancelMark(p) ==
    /\ call[p].pc = "cancel_mark"
    /\ db' = IF call[p].mode = "Break" THEN db
             ELSE mark_session_status(db, Unwrap(call[p].sid), "Cancelled", call[p].active)
    /\ st' = sync_active_from_anchor(st)
    /\ call' = Ret(p)
    /\ Obs("cancel_ok", TRUE)
    /\ UNCHANGED << segmentsFor, sensing, tickerHandle, tickers, pending, nextSid, overlaps, segVars, storeVars, gateVars, workerVars, loopVars >>

\* ------------------------------------------------------------ get_state / get_snapshot
\* variant of GetState that returns the stored fields as they are
GetStateStored(p) ==
    /\ call[p].pc = "idle"
    /\ Invoke(p)
    /\ Obs("get_state_ok", FALSE)
    /\ UNCHANGED << st, db, segmentsFor, sensing, tickerHandle, tickers, pending, call, nextSid, segVars, storeVars, gateVars, workerVars, loopVars >>
\* controller.rs 81-94
GetState(p) ==
    /\ call[p].pc = "idle"
    /\ Invoke(p)
    /\ st' = sync_active_from_anchor(st)
    /\ Obs("get_state_ok", FALSE)
    /\ UNCHANGED << db, segmentsFor, sensing, tickerHandle, tickers, pending, call, nextSid, segVars, storeVars, gateVars, workerVars, loopVars >>

\* ------------------------------------------------------------ ticker task
\* controller.rs 472-473: the completion edge is taken in the deadline-bound modes
completion_edge(snapshot, remaining) ==
    remaining <= 0 /\ snapshot.mode \in {"Countdown", "Break"}

\* controller.rs 511-514: this tick persists progress and emits a heartbeat.  The
\* tick counter is not kept: whether ticks % heartbeat_every == 0 holds on a tick
\* is the input `due` (every tick in debug mode, every tenth otherwise)
heartbeat_due(snapshot, due) ==
    IsSome(snapshot.session_id) /\ due

\* controller.rs 453-473 and 511-539: one tick: the `break` of a ticker that finds
\* the state not Running, a tick that finds the deadline reached, or a plain tick
TickerTick(t, due) ==
    /\ tickers[t].pc = "wait"
    /\ IF st.status # "Running"
       THEN /\ tickers' = [tickers EXCEPT ![t] = TickerDone]
            /\ UNCHANGED << st, pending >>
       ELSE LET snapshot == sync_active_from_anchor(st)
                remaining == remaining_ms(snapshot)
            IN /\ st' = snapshot
               /\ IF completion_edge(snapshot, remaining)
                  THEN /\ tickers' = [tickers EXCEPT ![t].pc = "stopping"]
                       /\ UNCHANGED pending
                  ELSE /\ heartbeat_due(snapshot, due) => Cardinality(pending) < MaxPending
                       /\ UNCHANGED tickers
                       /\ pending' = IF heartbeat_due(snapshot, due)
                                     THEN pending \cup {[sid |-> Unwrap(snapshot.session_id),
                                                         active_ms |-> snapshot.active_ms]}
                                     ELSE pending
    /\ Quiet
    /\ UNCHANGED << db, segmentsFor, sensing, tickerHandle, call, nextSid, overlaps, segVars, storeVars, gateVars, workerVars, loopVars >>

\* controller.rs 475-481: the second critical section of the completion edge
TickerStop(t) ==
    /\ tickers[t].pc = "stopping"
    /\ LET final_snapshot == clamp_active(stop(sync_active_from_anchor(st)))
       IN /\ st' = final_snapshot
          /\ IF final_snapshot.mode = "Break"
             THEN /\ tickers' = [tickers EXCEPT ![t] = TickerDone]
                  /\ Obs("none", TRUE)
             ELSE /\ tickers' = [tickers EXCEPT ![t].pc = "stop_sensing",
                                                ![t].final = final_snapshot]
                  /\ Quiet
    /\ UNCHANGED << db, segmentsFor, sensing, tickerHandle, pending, call, nextSid, overlaps, segVars, storeVars, gateVars, workerVars, loopVars >>

\* controller.rs 483-485 and sensing/controller.rs 60-67: the ticker takes the lock
\* of the SensingController, cancels the token, takes the handle and waits for
\* the loop; a ticker that was aborted meanwhile is dropped at this wait
TickerStopSensing(t) ==
    /\ tickers[t].pc = "stop_sensing"
    /\ ~SensingLocked
    /\ IsSome(sensing)
    /\ sensing' = stop_sensing(sensing)
    /\ loops' = cancel_token(loops, sensing)
    /\ tickers' = IF tickers[t].aborted
                  THEN [tickers EXCEPT ![t] = TickerDone]
                  ELSE [tickers EXCEPT ![t].pc = "join", ![t].joining = sensing]
    /\ Quiet
    /\ UNCHANGED << st, db, segmentsFor, tickerHandle, pending, call, nextSid, overlaps, segVars, storeVars, gateVars, workerVars,
                    loopRestOfTimer, context_readings, loadedFor >>

\* controller.rs 485-508: stop_sensing returns when the capture loop has ended, or
\* at once when no handle is held; emit, spawn the final progress write, break
TickerFinish(t) ==
    /\ \/ tickers[t].pc = "join" /\ Joined(tickers[t].joining)
       \/ tickers[t].pc = "stop_sensing" /\ ~SensingLocked /\ ~IsSome(sensing)
    /\ IsSome(tickers[t].final.session_id) => Cardinality(pending) < MaxPending
    /\ UNCHANGED sensing
    /\ pending' = IF IsSome(tickers[t].final.session_id)
                  THEN pending \cup {[sid |-> Unwrap(tickers[t].final.session_id),
                                      active_ms |-> tickers[t].final.active_ms]}
                  ELSE pending
    /\ tickers' = [tickers EXCEPT ![t] = TickerDone]
    /\ Obs("none", TRUE)
    /\ UNCHANGED << st, db, segmentsFor, tickerHandle, call, nextSid, overlaps, segVars, storeVars, gateVars, workerVars, loopVars >>

\* an aborted ticker is dropped at a suspension point (state.lock().await,
\* sensing.lock().await) instead of going on
TickerDie(t) ==
    /\ tickers[t].aborted
    /\ tickers[t].pc \in {"stopping", "stop_sensing"}
    /\ tickers' = [tickers EXCEPT ![t] = TickerDone]
    /\ Quiet
    /\ UNCHANGED << st, db, segmentsFor, sensing, tickerHandle, pending, call, nextSid, overlaps, segVars, storeVars, gateVars, workerVars, loopVars >>

\* variant of update_session_progress that creates the row it does not find
update_session_progress_upsert(d, sid, active) ==
    IF sid \in DOMAIN d THEN [d EXCEPT ![sid].active_ms = active]
    ELSE (sid :> [status |-> "Running", target_ms |-> 0, active_ms |-> active,
                  stopped_at |-> None]) @@ d
\* sessions.rs 63-81 update_session_progress: UPDATE ... SET active_ms WHERE id = ?
update_session_progress(d, sid, active) ==
    IF sid \in DOMAIN d THEN [d EXCEPT ![sid].active_ms = active] ELSE d

\* a spawned progress write (controller.rs 496-504, 526-537) is executed; the
\* timer-heartbeat event that follows a periodic write is not recorded
ApplyProgress(w) ==
    /\ w \in pending
    /\ db' = update_session_progress(db, w.sid, w.active_ms)
    /\ pending' = pending \ {w}
    /\ Quiet
    /\ UNCHANGED << st, segmentsFor, sensing, tickerHandle, tickers, call, nextSid, overlaps, segVars, storeVars, gateVars, workerVars, loopVars >>

\* ------------------------------------------------------------ capture loops of the sessions
\* The capture loop of a session as the controller meets it: a task that is
\* "running", or "cancelled" (it goes on after its token was cancelled until it
\* is back at select!), or "none" (not spawned, or ended).
\* loop_worker.rs 108-123, 234-248: a tick of the loop writes a reading of its
\* session; the database worker executes the commands in the order they are
\* sent (db/mod.rs 119-126), so the row is there for every command sent later
CaptureWrite(s) ==
    /\ loops[s] \in {"running", "cancelled"}
    /\ Len(context_readings) < MaxCaptured
    /\ context_readings' = Append(context_readings,
            [session_id |-> s, timestamp |-> now, bundle_id |-> "app",
             phash |-> None, ocr_text |-> None])
    /\ Quiet
    /\ UNCHANGED << st, db, segmentsFor, sensing, tickerHandle, tickers, pending, call, nextSid,
                    overlaps, segVars, storeVars, gateVars, workerVars, loopRestOfTimer, loops, loadedFor >>

\* loop_worker.rs 63-66: the loop takes the branch of the cancelled token and ends
CaptureExit(s) ==
    /\ loops[s] = "cancelled"
    /\ loops' = [loops EXCEPT ![s] = "none"]
    /\ Quiet
    /\ UNCHANGED << st, db, segmentsFor, sensing, tickerHandle, tickers, pending, call, nextSid,
                    overlaps, segVars, storeVars, gateVars, workerVars, loopRestOfTimer, context_readings, loadedFor >>

\* ------------------------------------------------------------ specification
Next ==
    \/ Advance
    \/ \E p \in Callers, target \in 0..MaxTarget, mode \in Modes, inserted \in BOOLEAN :
           StartCheck(p, target, mode, inserted)
    \/ \E p \in Callers : StartBegin(p)
    \/ \E p \in Callers : StartSensing(p)
    \/ \E p \in Callers : StartSpawnTicker(p)
    \/ \E p \in Callers : StartAnchor(p)
    \/ \E p \in Callers : EndLock(p)
    \/ \E p \in Callers : EndStopSensing(p)
    \/ \E p \in Callers : EndJoin(p)
    \/ \E p \in Callers : EndCancelTicker(p)
    \/ \E p \in Callers : EndMark(p, TRUE)
    \/ \E p \in Callers : CancelLock(p)
    \/ \E p \in Callers : CancelStopSensing(p)
    \/ \E p \in Callers : CancelJoin(p)
    \/ \E p \in Callers : CancelTicker(p)
    \/ \E p \in Callers : CancelMark(p)
    \/ \E p \in Callers : GetState(p)
    \/ \E t \in SessionIds, due \in BOOLEAN : TickerTick(t, due)
    \/ \E t \in SessionIds : TickerStop(t)
    \/ \E t \in SessionIds : TickerStopSensing(t)
    \/ \E t \in SessionIds : TickerFinish(t)
    \/ \E t \in SessionIds : TickerDie(t)
    \/ \E w \in pending : ApplyProgress(w)
    \/ \E s \in SessionIds : CaptureExit(s)

Spec == Init /\ [][Next]_vars

\* ------------------------------------------------------------ startup recovery
\* sessions.rs 131-148 get_incomplete_session: the Running row with the latest
\* started_at (ORDER BY started_at DESC LIMIT 1); sessions are numbered in the
\* order they are started
get_incomplete_session(d) ==
    LET running == {s \in DOMAIN d : d[s].status = "Running"}
    IN IF running = {} THEN None
       ELSE Some(CHOOSE s \in running : \A r \in running : r <= s)

\* sessions.rs 150-174 mark_session_interrupted
mark_session_interrupted(d, sid, stopped_at) ==
    IF sid \in DOMAIN d
    THEN [d EXCEPT ![sid].status = "Interrupted", ![sid].stopped_at = Some(stopped_at)]
    ELSE d

\* lib.rs 246-264: the row get_incomplete_session returns is marked Interrupted
recover(d) ==
    LET session == get_incomplete_session(d)
    IN IF IsSome(session) THEN mark_session_interrupted(d, Unwrap(session), now) ELSE d

\* The process ends at any moment (crash or kill) and the application is started
\* again: every task and the controller's memory are gone, the database file is
\* what the worker had committed, and lib.rs 246-266 runs the recovery and builds
\* a new TimerController.  `result` is the outcome of the two database calls of
\* the recovery; on an error setup fails and the application does not start.
Restart(result) ==
    /\ IF result = "ok"
       THEN /\ db' = recover(db)
            /\ Obs("recovered", FALSE)
       ELSE /\ UNCHANGED db
            /\ Obs("recover_err", FALSE)
    /\ st' = TimerStateDefault
    /\ sensing' = None
    /\ tickerHandle' = None
    /\ tickers' = [t \in SessionIds |-> TickerNone]
    /\ pending' = {}
    /\ call' = [p \in Callers |-> CallIdle]
    /\ loops' = [s \in SessionIds |-> "none"]
    /\ UNCHANGED << segmentsFor, nextSid, overlaps, segVars, storeVars, gateVars, workerVars, loopRestOfTimer,
                    context_readings, loadedFor >>

RecoveryNext ==
    \/ Next
    \/ \E result \in {"ok", "err"} : Restart(result)

RecoverySpec == Init /\ [][RecoveryNext]_vars

\* The controller together with the readings its capture loops write and with an
\* insert_segments_and_interruptions that can fail.  The sessions are shorter
\* than heartbeat_every_ticks periods (ten in a release build), so no periodic
\* progress write is due, and nothing reads the state from outside.
SessionNext ==
    \/ Advance
    \/ \E p \in Callers, target \in 0..MaxTarget, mode \in Modes, inserted \in BOOLEAN :
           StartCheck(p, target, mode, inserted)
    \/ \E p \in Callers : StartBegin(p)
    \/ \E p \in Callers : StartSensing(p)
    \/ \E p \in Callers : StartSpawnTicker(p)
    \/ \E p \in Callers : StartAnchor(p)
    \/ \E p \in Callers : EndLock(p)
    \/ \E p \in Callers : EndStopSensing(p)
    \/ \E p \in Callers : EndJoin(p)
    \/ \E p \in Callers : EndCancelTicker(p)
    \/ \E p \in Callers, persisted \in BOOLEAN : EndMark(p, persisted)
    \/ \E p \in Callers : CancelLock(p)
    \/ \E p \in Callers : CancelStopSensing(p)
    \/ \E p \in Callers : CancelJoin(p)
    \/ \E p \in Callers : CancelTicker(p)
    \/ \E p \in Callers : CancelMark(p)
    \/ \E t \in SessionIds : TickerTick(t, FALSE)
    \/ \E t \in SessionIds : TickerStop(t)
    \/ \E t \in SessionIds : TickerStopSensing(t)
    \/ \E t \in SessionIds : TickerFinish(t)
    \/ \E t \in SessionIds : TickerDie(t)
    \/ \E w \in pending : ApplyProgress(w)
    \/ \E s \in SessionIds : CaptureWrite(s)
    \/ \E s \in SessionIds : CaptureExit(s)

SessionSpec == Init /\ [][SessionNext]_vars

\* ------------------------------------------------------------ segmentation engine
\* config.rs 20-21 and the thresholds algorithm.rs reads from the configuration
min_segment_duration_secs == 30
sandwich_max_duration_secs == 12
transition_window_secs == 60
transition_switch_threshold == 3
distracted_threshold_secs == 180
min_dwell == 10
\* loop_worker.rs 21: the capture cadence, the distance between two readings
CAPTURE_INTERVAL_SECS == 5

Apps == << "A", "B", "C" >>
Titles == {"t1", "t2"}
Gaps == {CAPTURE_INTERVAL_SECS, LongGap}

\* a ContextReading: its bundle_id, its timestamp in seconds, the window title, the
\* perceptual hash and the OCR confidence (in thousandths) if they were computed
Reading(app, ts) ==
    [bundle_id |-> app, timestamp |-> ts, title |-> "t1", phash |-> None,
     ocr_confidence |-> None]

\* readings built from the bundle ids and the gaps before each reading
RECURSIVE Timeline(_, _, _)
Timeline(apps, gaps, t) ==
    IF apps = << >> THEN << >>
    ELSE << Reading(Head(apps), t + Head(gaps)) >>
         \o Timeline(Tail(apps), Tail(gaps), t + Head(gaps))

\* a run of n readings of one application at the capture cadence
Run(app, n) == [i \in 1..n |-> app]

\* application A, then B, then A again, sampled at the capture cadence
SandwichInputs ==
    {Timeline(Run("A", a) \o Run("B", b) \o Run("A", c),
              [i \in 1..(a + b + c) |-> IF i = 1 THEN 0 ELSE CAPTURE_INTERVAL_SECS], 0) :
        a \in 1..MaxRun, b \in 1..2, c \in 1..MaxRun}

\* algorithm.rs 204-242 group_readings: a group is a maximal run of one bundle_id
RECURSIVE group_from(_, _, _)
group_from(rs, i, groups) ==
    IF i > Len(rs) THEN groups
    ELSE LET r == rs[i]
             n == Len(groups)
         IN IF n > 0 /\ groups[n].bundle_id = r.bundle_id
            THEN group_from(rs, i + 1,
                    [groups EXCEPT ![n].end_time = r.timestamp,
                                   ![n].readings = Append(@, r)])
            ELSE group_from(rs, i + 1,
                    Append(groups, [bundle_id |-> r.bundle_id,
                                    start_time |-> r.timestamp,
                                    end_time |-> r.timestamp,
                                    readings |-> << r >>,
                                    is_transitioning |-> FALSE]))

group_readings(rs) == group_from(rs, 1, << >>)

\* algorithm.rs 18-21 ReadingGroup::duration_secs
duration_secs(g) == g.end_time - g.start_time

\* algorithm.rs 23-25 ReadingGroup::reading_count
reading_count(g) == Len(g.readings)

\* Vec::sort on the dwell times
RECURSIVE insert_sorted(_, _)
insert_sorted(x, sorted) ==
    IF sorted = << >> THEN << x >>
    ELSE IF x <= Head(sorted) THEN << x >> \o sorted
    ELSE << Head(sorted) >> \o insert_sorted(x, Tail(sorted))

RECURSIVE sort(_)
sort(xs) == IF xs = << >> THEN << >> ELSE insert_sorted(Head(xs), sort(Tail(xs)))

\* algorithm.rs 245-268 calculate_median_dwell: None, or the median of the positive
\* distances between the end of a group and the start of the next
calculate_median_dwell(gs) ==
    IF Len(gs) < 2 THEN None
    ELSE LET all == [i \in 1..(Len(gs) - 1) |-> gs[i + 1].start_time - gs[i].end_time]
             dwell_times == SelectSeq(all, LAMBDA d : d > 0)
         IN IF dwell_times = << >> THEN None
            ELSE Some(sort(dwell_times)[(Len(dwell_times) \div 2) + 1])

\* algorithm.rs 288-295: the groups from i on that start within the window
window_len(groups, i, window_end) ==
    LET after == {k \in i..Len(groups) : groups[k].start_time > window_end}
    IN IF after = {} THEN Len(groups) - i + 1
       ELSE (CHOOSE k \in after : \A m \in after : k <= m) - i

\* algorithm.rs 300-307: switches between consecutive groups of the window
switch_count(groups, i, n) ==
    Cardinality({k \in (i + 1)..(i + n - 1) : groups[k - 1].bundle_id # groups[k].bundle_id})

\* algorithm.rs 309-318: 3+ switches, or a median dwell under 10 s
window_is_transitioning(groups, i, n) ==
    IF switch_count(groups, i, n) >= transition_switch_threshold THEN TRUE
    ELSE LET median_dwell == calculate_median_dwell(SubSeq(groups, i, i + n - 1))
         IN IF IsSome(median_dwell) THEN Unwrap(median_dwell) < min_dwell ELSE FALSE

\* algorithm.rs 273-327 detect_transitions: for every group in turn, the window that
\* starts with it; all groups of a transitioning window are marked
RECURSIVE detect_from(_, _)
detect_from(groups, i) ==
    IF i > Len(groups) THEN groups
    ELSE LET window_end == groups[i].start_time + transition_window_secs
             n == window_len(groups, i, window_end)
         IN IF n < 2 THEN detect_from(groups, i + 1)
            ELSE IF window_is_transitioning(groups, i, n)
            THEN detect_from([k \in 1..Len(groups) |->
                                IF k >= i /\ k <= i + n - 1
                                THEN [groups[k] EXCEPT !.is_transitioning = TRUE]
                                ELSE groups[k]], i + 1)
            ELSE detect_from(groups, i + 1)

detect_transitions(groups) ==
    IF Len(groups) < 2 THEN groups ELSE detect_from(groups, 1)

\* algorithm.rs 339-342, 87-90: the readings of a run of groups, one after another
RECURSIVE flat_readings(_)
flat_readings(acc) ==
    IF acc = << >> THEN << >> ELSE Head(acc).readings \o flat_readings(Tail(acc))

\* variant of merge_transition_groups that keeps the first group as it is
merge_transition_first(acc) == acc[1]
\* algorithm.rs 330-346 merge_transition_groups: the first group, extended to the
\* end of the last one
merge_transition_groups(acc) ==
    [acc[1] EXCEPT !.end_time = acc[Len(acc)].end_time,
                   !.readings = flat_readings(acc)]

\* algorithm.rs 470-487 most_common_window_title: max_by_key over the entries of a
\* HashMap, whose iteration order is not fixed; among the titles of the highest
\* count it returns the one iterated last.  This is the set of the titles it can
\* return.
title_count(rs, t) == Cardinality({k \in 1..Len(rs) : rs[k].title = t})

most_common_window_title(rs) ==
    {Some(rs[k].title) : k \in {j \in 1..Len(rs) :
        \A m \in 1..Len(rs) : title_count(rs, rs[j].title) >= title_count(rs, rs[m].title)}}

\* a db::models::Segment as algorithm.rs 381-399 and 410-428 build it: Uuid::new_v4
\* ids are the numbers 1, 2, ... in the order of creation; window_title holds the
\* titles most_common_window_title can return until the caller draws one
Segment(id, g, type) ==
    [id |-> id, start_time |-> g.start_time, end_time |-> g.end_time,
     duration_secs |-> duration_secs(g), bundle_id |-> g.bundle_id,
     window_title |-> most_common_window_title(g.readings),
     segment_type |-> type, confidence |-> 0,
     duration_score |-> None, stability_score |-> None,
     visual_clarity_score |-> None, ocr_quality_score |-> None,
     reading_count |-> reading_count(g), unique_phash_count |-> None]

\* the segment lists that differ from segments only in that every window_title is
\* one of the titles most_common_window_title can return
drawn_titles(segments) ==
    {[k \in 1..Len(segments) |-> [segments[k] EXCEPT !.window_title = f[k]]] :
        f \in {h \in [1..Len(segments) -> {Some(t) : t \in Titles}] :
                  \A k \in 1..Len(segments) : h[k] \in segments[k].window_title}}

\* algorithm.rs 350-467 create_initial_segments_with_readings: a Stable segment per
\* group, one Transitioning segment per run of transitioning groups
RECURSIVE initial_from(_, _, _, _)
initial_from(groups, i, acc, segments) ==
    LET flushed == IF acc = << >> THEN segments
                   ELSE Append(segments,
                               Segment(Len(segments) + 1, merge_transition_groups(acc),
                                       "Transitioning"))
    IN IF i > Len(groups) THEN flushed
       ELSE IF groups[i].is_transitioning
       THEN initial_from(groups, i + 1, Append(acc, groups[i]), segments)
       ELSE initial_from(groups, i + 1, << >>,
                Append(flushed, Segment(Len(flushed) + 1, groups[i], "Stable")))

create_initial_segments_with_readings(groups) == initial_from(groups, 1, << >>, << >>)

\* merge.rs 33-35: the sandwich pattern at position i
is_sandwich(segments, i) ==
    /\ i + 2 <= Len(segments)
    /\ segments[i].bundle_id = segments[i + 2].bundle_id
    /\ segments[i + 1].segment_type = "Stable"
    /\ segments[i + 1].duration_secs <= sandwich_max_duration_secs

\* variant of interruption_of that records the middle segment as the owner
interruption_owned_by_b(merged_segment, b) ==
    [segment_id |-> b.id, bundle_id |-> b.bundle_id,
     timestamp |-> b.start_time, duration_secs |-> b.duration_secs]
\* merge.rs 45-53: the interruption made from the middle segment, owned by the
\* merged segment
interruption_of(merged_segment, b) ==
    [segment_id |-> merged_segment.id, bundle_id |-> b.bundle_id,
     timestamp |-> b.start_time, duration_secs |-> b.duration_secs]

\* variant of sandwich_pass that goes on with the scan at the closing segment of
\* a sandwich
RECURSIVE sandwich_pass_rescans(_, _, _, _)
sandwich_pass_rescans(segments, i, result, interruptions) ==
    IF i > Len(segments) THEN [segments |-> result, interruptions |-> interruptions]
    ELSE IF is_sandwich(segments, i)
    THEN LET a == segments[i]
             b == segments[i + 1]
             c == segments[i + 2]
             merged_segment == [a EXCEPT !.end_time = c.end_time,
                                         !.duration_secs = c.end_time - a.start_time,
                                         !.reading_count = a.reading_count + c.reading_count]
             interruption == interruption_of(merged_segment, b)
         IN sandwich_pass_rescans(segments, i + 2, Append(result, merged_segment),
                                  Append(interruptions, interruption))
    ELSE sandwich_pass_rescans(segments, i + 1, Append(result, segments[i]), interruptions)
\* merge.rs 22-65: one scan over the segments; the result and the new interruptions
RECURSIVE sandwich_pass(_, _, _, _)
sandwich_pass(segments, i, result, interruptions) ==
    IF i > Len(segments) THEN [segments |-> result, interruptions |-> interruptions]
    ELSE IF is_sandwich(segments, i)
    THEN LET a == segments[i]
             b == segments[i + 1]
             c == segments[i + 2]
             merged_segment == [a EXCEPT !.end_time = c.end_time,
                                         !.duration_secs = c.end_time - a.start_time,
                                         !.reading_count = a.reading_count + c.reading_count]
             interruption == interruption_of(merged_segment, b)
         IN sandwich_pass(segments, i + 3, Append(result, merged_segment),
                          Append(interruptions, interruption))
    ELSE sandwich_pass(segments, i + 1, Append(result, segments[i]), interruptions)

\* algorithm.rs 190-201 classify_segments
classify_segments(segments) ==
    [k \in 1..Len(segments) |->
        IF /\ segments[k].segment_type = "Transitioning"
           /\ segments[k].duration_secs >= distracted_threshold_secs
        THEN [segments[k] EXCEPT !.segment_type = "Distracted"]
        ELSE segments[k]]

\* ------------------------------------------------------------ scoring
\* Scores are f64 values in the code; here they are counted in thousandths, and a
\* division rounds down.
\* config.rs 22-25: the weights of the four scores
weight_duration == 300
weight_stability == 400
weight_visual == 150
weight_ocr == 150

\* e^(r/50) for 0 <= r < 50, in ten-thousandths: the exponential series, six terms
exp_fraction(r) ==
    LET t == 200 * r
        t1 == t
        t2 == (t1 * t) \div 20000
        t3 == (t2 * t) \div 30000
        t4 == (t3 * t) \div 40000
        t5 == (t4 * t) \div 50000
        t6 == (t5 * t) \div 60000
    IN 10000 + t1 + t2 + t3 + t4 + t5 + t6

\* v * e^q for an integer q
RECURSIVE exp_scaled(_, _)
exp_scaled(v, q) ==
    IF q = 0 \/ v = 0 THEN v
    ELSE IF q > 0 THEN exp_scaled((v * 2718) \div 1000, q - 1)
    ELSE exp_scaled((v * 1000) \div 2718, q + 1)

\* scoring.rs 35 f64::exp: e^(y/50) in ten-thousandths
exp_fiftieths(y) == exp_scaled(exp_fraction(y % 50), y \div 50)

\* scoring.rs 32-36 score_duration: 1 / (1 + e^(-0.02 (duration - 120)))
score_duration(d) == 10000000 \div (10000 + exp_fiftieths(120 - d))

\* scoring.rs 39-51 score_stability: the share of the readings that have the
\* bundle_id of the segment
score_stability(segment, rs) ==
    IF rs = << >> THEN 500
    ELSE (1000 * Len(SelectSeq(rs, LAMBDA r : r.bundle_id = segment.bundle_id))) \div Len(rs)

\* scoring.rs 55-63 score_visual_clarity
score_visual_clarity(segment) ==
    IF segment.reading_count = 0 THEN 500
    ELSE LET unique_count == IF IsSome(segment.unique_phash_count)
                             THEN Unwrap(segment.unique_phash_count) ELSE 0
             change_ratio == (1000 * unique_count) \div segment.reading_count
         IN 1000 - Min(change_ratio, 1000)

\* the sum of the OCR confidences of readings that have one
RECURSIVE total_confidence(_)
total_confidence(rs) ==
    IF rs = << >> THEN 0 ELSE Unwrap(Head(rs).ocr_confidence) + total_confidence(Tail(rs))

\* variant of score_ocr_quality that does not divide by the number of readings
score_ocr_total(segment, rs) ==
    total_confidence(SelectSeq(rs, LAMBDA r : IsSome(r.ocr_confidence)))
\* scoring.rs 66-86 score_ocr_quality: the mean OCR confidence of the readings that
\* have one, 0.5 if none has
score_ocr_quality(segment, rs) ==
    LET with == SelectSeq(rs, LAMBDA r : IsSome(r.ocr_confidence))
    IN IF rs = << >> THEN 500
       ELSE IF Len(with) > 0 THEN total_confidence(with) \div Len(with)
       ELSE 500

\* scoring.rs 89-97 compute_unique_phash_count
compute_unique_phash_count(rs) ==
    Cardinality({Unwrap(rs[k].phash) : k \in {j \in 1..Len(rs) : IsSome(rs[j].phash)}})

\* scoring.rs 6-28 compute_confidence, and the assignments of its results to the
\* segment (algorithm.rs 122-126, 181-185)
compute_confidence(segment, rs) ==
    LET duration_score == score_duration(segment.duration_secs)
        stability_score == score_stability(segment, rs)
        visual_score == score_visual_clarity(segment)
        ocr_score == score_ocr_quality(segment, rs)
    IN [segment EXCEPT
           !.confidence = (weight_duration * duration_score
                           + weight_stability * stability_score
                           + weight_visual * visual_score
                           + weight_ocr * ocr_score) \div 1000,
           !.duration_score = Some(duration_score),
           !.stability_score = Some(stability_score),
           !.visual_clarity_score = Some(visual_score),
           !.ocr_quality_score = Some(ocr_score)]

\* variant of score_segment that keeps the reading_count sandwich_merge left
score_segment_counted_by_merge(segment, all_readings) ==
    LET segment_readings ==
            SelectSeq(all_readings, LAMBDA r : /\ r.timestamp >= segment.start_time
                                               /\ r.timestamp <= segment.end_time)
    IN compute_confidence(
           [segment EXCEPT
               !.unique_phash_count = Some(compute_unique_phash_count(segment_readings))],
           segment_readings)
\* algorithm.rs 96-127: step 8 for one segment: its readings by time range, the
\* unique hashes, the reading count and the scores
score_segment(segment, all_readings) ==
    LET segment_readings ==
            SelectSeq(all_readings, LAMBDA r : /\ r.timestamp >= segment.start_time
                                               /\ r.timestamp <= segment.end_time)
    IN compute_confidence(
           [segment EXCEPT
               !.unique_phash_count = Some(compute_unique_phash_count(segment_readings)),
               !.reading_count = Len(segment_readings)],
           segment_readings)

\* variant of create_single_segment_for_session whose segment ends at the first
\* reading
create_single_segment_at_first(rs) ==
    LET segment ==
            [id |-> 1, start_time |-> rs[1].timestamp, end_time |-> rs[1].timestamp,
             duration_secs |-> 0,
             bundle_id |-> rs[1].bundle_id,
             window_title |-> most_common_window_title(rs),
             segment_type |-> "Stable", confidence |-> 950,
             duration_score |-> None, stability_score |-> None,
             visual_clarity_score |-> None, ocr_quality_score |-> None,
             reading_count |-> Len(rs),
             unique_phash_count |-> Some(compute_unique_phash_count(rs))]
    IN << compute_confidence(segment, rs) >>
\* algorithm.rs 133-188 create_single_segment_for_session: one Stable segment from
\* the first to the last reading, created with confidence 0.95 and then scored
create_single_segment_for_session(rs) ==
    LET segment ==
            [id |-> 1, start_time |-> rs[1].timestamp, end_time |-> rs[Len(rs)].timestamp,
             duration_secs |-> rs[Len(rs)].timestamp - rs[1].timestamp,
             bundle_id |-> rs[1].bundle_id,
             window_title |-> most_common_window_title(rs),
             segment_type |-> "Stable", confidence |-> 950,
             duration_score |-> None, stability_score |-> None,
             visual_clarity_score |-> None, ocr_quality_score |-> None,
             reading_count |-> Len(rs),
             unique_phash_count |-> Some(compute_unique_phash_count(rs))]
    IN << compute_confidence(segment, rs) >>

\* algorithm.rs 47-63: a session under 30 s, or of one application only
single_segment_case(rs) ==
    \/ rs[Len(rs)].timestamp - rs[1].timestamp < min_segment_duration_secs
    \/ \A k \in 1..Len(rs) : rs[k].bundle_id = rs[1].bundle_id

\* algorithm.rs 35-66: the edge cases, then step 1, group_readings
SegGroup ==
    /\ segOut.pc = "start"
    /\ IF readings = << >> THEN segOut' = [segOut EXCEPT !.pc = "done"]
       ELSE IF single_segment_case(readings)
       THEN \E segments \in drawn_titles(create_single_segment_for_session(readings)) :
                segOut' = [segOut EXCEPT !.pc = "done", !.segments = segments]
       ELSE segOut' = [segOut EXCEPT !.pc = "grouped", !.groups = group_readings(readings)]
    /\ UNCHANGED << readings, earlier, timerVars, loopVars, storeVars, gateVars, workerVars >>

\* algorithm.rs 68-69: step 2, detect_transitions
SegDetect ==
    /\ segOut.pc = "grouped"
    /\ segOut' = [segOut EXCEPT !.pc = "detected", !.groups = detect_transitions(segOut.groups)]
    /\ UNCHANGED << readings, earlier, timerVars, loopVars, storeVars, gateVars, workerVars >>

\* algorithm.rs 71-78: steps 3 and 4, the initial segments
SegInitial ==
    /\ segOut.pc = "detected"
    /\ \E segments_with_readings \in
             drawn_titles(create_initial_segments_with_readings(segOut.groups)) :
          segOut' = [segOut EXCEPT !.pc = "merging",
                                   !.segments_with_readings = segments_with_readings,
                                   !.segments = segments_with_readings]
    /\ UNCHANGED << readings, earlier, timerVars, loopVars, storeVars, gateVars, workerVars >>

\* variant of SegMergePass that leaves the loop after the first scan
SegMergeOnce ==
    /\ segOut.pc = "merging"
    /\ LET pass == sandwich_pass(segOut.segments, 1, << >>, segOut.interruptions)
       IN segOut' = [segOut EXCEPT !.pc = "merged",
                                   !.segments = pass.segments,
                                   !.interruptions = pass.interruptions]
    /\ UNCHANGED << readings, earlier, timerVars, loopVars, storeVars, gateVars, workerVars >>
\* merge.rs 20-72: one turn of the loop of sandwich_merge; the loop ends after a
\* scan that merged nothing
SegMergePass ==
    /\ segOut.pc = "merging"
    /\ LET pass == sandwich_pass(segOut.segments, 1, << >>, segOut.interruptions)
       IN segOut' = [segOut EXCEPT
                        !.pc = IF Len(pass.segments) = Len(segOut.segments)
                               THEN "merged" ELSE "merging",
                        !.segments = pass.segments,
                        !.interruptions = pass.interruptions]
    /\ UNCHANGED << readings, earlier, timerVars, loopVars, storeVars, gateVars, workerVars >>

\* algorithm.rs 85-129: step 6, the readings of all initial segments; step 7,
\* classify_segments; step 8, the aggregates and scores; and the return
SegFinish ==
    /\ segOut.pc = "merged"
    /\ LET all_readings == flat_readings(segOut.groups)
           final_segments == classify_segments(segOut.segments)
       IN segOut' = [segOut EXCEPT
                        !.pc = "done",
                        !.segments = [k \in 1..Len(final_segments) |->
                                         score_segment(final_segments[k], all_readings)]]
    /\ UNCHANGED << readings, earlier, timerVars, loopVars, storeVars, gateVars, workerVars >>

\* the inputs of segment_session: the sandwich scenarios, and every list of at most
\* MaxReadings readings built by SegAddReading
SegInit ==
    /\ TimerInit
    /\ readings \in {<< >>} \cup SandwichInputs
    /\ segOut = SegStart
    /\ earlier = None
    /\ LoopIdle
    /\ StoreIdle
    /\ GateIdle
    /\ WorkerIdle

\* loop_worker.rs 100-124, 232-248: the capture loop writes one more reading, with
\* the bundle id of the foreground application, one tick or (ticks skipped) a long
\* gap after the last one.  Applications are named in order of first appearance.
SegAddReading(app, gap) ==
    /\ segOut.pc = "start"
    /\ Len(readings) < MaxReadings
    /\ LET seen == {readings[k].bundle_id : k \in 1..Len(readings)}
       IN app \in {Apps[k] : k \in 1..Min(Len(Apps), 1 + Cardinality(seen))}
    /\ readings = << >> => gap = CAPTURE_INTERVAL_SECS
    /\ readings' = Append(readings,
                          Reading(app, IF readings = << >> THEN 0
                                       ELSE readings[Len(readings)].timestamp + gap))
    /\ UNCHANGED << segOut, earlier, timerVars, loopVars, storeVars, gateVars, workerVars >>

\* context_readings.rs 153-184 update_readings_with_segment_ids: one UPDATE per
\* segment, in the order of the list, of the session's rows inside the segment's
\* time range that have no segment_id yet
RECURSIVE update_readings_with_segment_ids(_, _, _, _)
update_readings_with_segment_ids(rows, sid, segments, k) ==
    IF k > Len(segments) THEN rows
    ELSE update_readings_with_segment_ids(
             [i \in DOMAIN rows |->
                 IF /\ rows[i].session_id = sid
                    /\ rows[i].timestamp >= segments[k].start_time
                    /\ rows[i].timestamp <= segments[k].end_time
                    /\ rows[i].segment_id = None
                 THEN [rows[i] EXCEPT !.segment_id = Some(segments[k].id)]
                 ELSE rows[i]],
             sid, segments, k + 1)

\* the rows of the session the readings were loaded from, before the back-fill
LoadedRows(sid) ==
    [i \in DOMAIN readings |->
        [session_id |-> sid, timestamp |-> readings[i].timestamp,
         bundle_id |-> readings[i].bundle_id, segment_id |-> None]]

\* controller.rs 302-384: what end_timer does with the result of segment_session for
\* the readings it loaded (those of session 1): insert_segments_and_interruptions,
\* then update_readings_with_segment_ids; the error of either is logged and
\* end_timer returns the session all the same.  `inserted` and `updated` are the
\* outcomes of the two calls.
EndSegmentation(inserted, updated) ==
    /\ segOut.pc = "done"
    /\ segOut' = [segOut EXCEPT !.pc = "returned"]
    /\ segments_table' =
           IF inserted
           THEN {[id |-> segOut.segments[k].id, session_id |-> 1,
                  start_time |-> segOut.segments[k].start_time,
                  end_time |-> segOut.segments[k].end_time] :
                     k \in 1..Len(segOut.segments)}
           ELSE segments_table
    /\ segmentsFor' = IF inserted THEN segmentsFor \cup {1} ELSE segmentsFor
    /\ context_readings' =
           IF inserted /\ updated
           THEN update_readings_with_segment_ids(LoadedRows(1), 1, segOut.segments, 1)
           ELSE LoadedRows(1)
    /\ Obs("end_ok", TRUE)
    /\ UNCHANGED << st, db, sensing, tickerHandle, tickers, pending, call, nextSid,
                    overlaps, readings, earlier, capture, cancelled, stopping, now,
                    dbQueue, loops, loadedFor, interruptions_table, tx, storeReturned, gateVars, workerVars >>

SegNext ==
    \/ \E app \in {Apps[k] : k \in 1..Len(Apps)}, gap \in Gaps : SegAddReading(app, gap)
    \/ SegGroup
    \/ SegDetect
    \/ SegInitial
    \/ SegMergePass
    \/ SegFinish
    \/ \E inserted \in BOOLEAN, updated \in BOOLEAN : EndSegmentation(inserted, updated)

SegSpec == SegInit /\ [][SegNext]_vars

\* ------------------------------------------------------------ segment_session, run twice
\* what the capture loop can put into a reading besides the application and the
\* time: the window title, and the hash and the OCR confidence if it computed them
Profiles ==
    {[title |-> "t1", phash |-> None, ocr_confidence |-> None],
     [title |-> "t2", phash |-> Some("p1"), ocr_confidence |-> Some(1000)],
     [title |-> "t1", phash |-> Some("p2"), ocr_confidence |-> Some(0)]}

\* ten readings of one application at the capture cadence
TenReadings ==
    Timeline(Run("A", 10), [i \in 1..10 |-> IF i = 1 THEN 0 ELSE CAPTURE_INTERVAL_SECS], 0)

\* loop_worker.rs 100-124, 232-248: the capture loop writes one more reading, with
\* the title, the hash and the OCR confidence of the tick
SegAddProfiled(app, gap, profile) ==
    /\ segOut.pc = "start"
    /\ earlier = None
    /\ Len(readings) < MaxProfiled
    /\ LET seen == {readings[k].bundle_id : k \in 1..Len(readings)}
       IN app \in {Apps[k] : k \in 1..Min(Len(Apps), 1 + Cardinality(seen))}
    /\ readings = << >> => gap = CAPTURE_INTERVAL_SECS
    /\ readings' = Append(readings,
                          [Reading(app, IF readings = << >> THEN 0
                                        ELSE readings[Len(readings)].timestamp + gap)
                              EXCEPT !.title = profile.title,
                                     !.phash = profile.phash,
                                     !.ocr_confidence = profile.ocr_confidence])
    /\ UNCHANGED << segOut, earlier, timerVars, loopVars, storeVars, gateVars, workerVars >>

\* algorithm.rs 35-38: segment_session is called once more with the same readings
\* and the same configuration; what the first call returned is kept
SegRunAgain ==
    /\ segOut.pc = "done"
    /\ earlier = None
    /\ earlier' = Some([segments |-> segOut.segments,
                        interruptions |-> segOut.interruptions])
    /\ segOut' = SegStart
    /\ UNCHANGED << readings, timerVars, loopVars, storeVars, gateVars, workerVars >>

TwiceInit ==
    /\ TimerInit
    /\ readings \in {<< >>, TenReadings}
    /\ segOut = SegStart
    /\ earlier = None
    /\ LoopIdle
    /\ StoreIdle
    /\ GateIdle
    /\ WorkerIdle

TwiceNext ==
    \/ \E app \in {Apps[k] : k \in 1..Len(Apps)}, gap \in Gaps, profile \in Profiles :
          SegAddProfiled(app, gap, profile)
    \/ SegGroup
    \/ SegDetect
    \/ SegInitial
    \/ SegMergePass
    \/ SegFinish
    \/ SegRunAgain

TwiceSpec == TwiceInit /\ [][TwiceNext]_vars

\* ------------------------------------------------------------ sandwich_merge on its own
\* merge.rs 19-72 sandwich_merge: the scans are repeated until one merges nothing
RECURSIVE sandwich_merge(_, _)
sandwich_merge(segments, all_interruptions) ==
    LET pass == sandwich_pass(segments, 1, << >>, all_interruptions)
    IN IF Len(pass.segments) = Len(segments) THEN pass
       ELSE sandwich_merge(pass.segments, pass.interruptions)

\* durations of the segments handed to sandwich_merge: a single reading, and a run
\* longer than the sandwich threshold
SegmentDurations == {0, sandwich_max_duration_secs + CAPTURE_INTERVAL_SECS}

\* merge.rs 13-16: the caller builds the segment list it hands to sandwich_merge, as
\* algorithm.rs 350-467 builds it: ids in order of creation, chronological, one
\* capture interval between a segment and the next.  Applications are named in
\* order of first appearance.
MergeAddSegment(app, type, dur) ==
    /\ segOut.pc = "input"
    /\ Len(segOut.segments_with_readings) < MaxSegments
    /\ LET input == segOut.segments_with_readings
           n == Len(input)
           seen == {input[k].bundle_id : k \in 1..n}
           start == IF n = 0 THEN 0 ELSE input[n].end_time + CAPTURE_INTERVAL_SECS
           g == [bundle_id |-> app, start_time |-> start, end_time |-> start + dur,
                 readings |-> [i \in 1..(1 + (dur \div CAPTURE_INTERVAL_SECS)) |->
                                 Reading(app, start + (i - 1) * CAPTURE_INTERVAL_SECS)],
                 is_transitioning |-> type = "Transitioning"]
       IN /\ app \in {Apps[k] : k \in 1..Min(Len(Apps), 1 + Cardinality(seen))}
          /\ \E segments \in drawn_titles(<< Segment(n + 1, g, type) >>) :
                segOut' = [segOut EXCEPT
                              !.segments_with_readings = input \o segments]
    /\ UNCHANGED << readings, earlier, timerVars, loopVars, storeVars, gateVars, workerVars >>

\* merge.rs 13-17: the call of sandwich_merge; all_interruptions starts empty
MergeCall ==
    /\ segOut.pc = "input"
    /\ segOut' = [segOut EXCEPT !.pc = "merging",
                                !.segments = segOut.segments_with_readings,
                                !.interruptions = << >>]
    /\ UNCHANGED << readings, earlier, timerVars, loopVars, storeVars, gateVars, workerVars >>

MergeInit ==
    /\ TimerInit
    /\ readings = << >>
    /\ segOut = [SegStart EXCEPT !.pc = "input"]
    /\ earlier = None
    /\ LoopIdle
    /\ StoreIdle
    /\ GateIdle
    /\ WorkerIdle

MergeNext ==
    \/ \E app \in {Apps[k] : k \in 1..Len(Apps)},
          type \in {"Stable", "Transitioning"},
          dur \in SegmentDurations : MergeAddSegment(app, type, dur)
    \/ MergeCall
    \/ SegMergePass

MergeSpec == MergeInit /\ [][MergeNext]_vars

\* the loop of sandwich_merge is not suspended: a scan that is due is run
MergeFairSpec == MergeSpec /\ WF_vars(SegMergePass)

\* ------------------------------------------------------------ capture loop
\* Time is counted in seconds here, and passes ClockStep seconds at a time.
\* loop_worker.rs 22: the timeout of one tick
CAPTURE_TIMEOUT_SECS == 10
\* loop_worker.rs 23-24: the gate of text recognition
OCR_COOLDOWN_SECS == 20
PHASH_CHANGE_THRESHOLD == 8
\* loop_worker.rs 160: a screenshot under this size is taken for a hidden window
MIN_SCREENSHOT_BYTES == 1000

timerRest == << st, db, segmentsFor, tickerHandle, tickers, pending, call, nextSid,
                overlaps, returned, emitted >>

\* what a step of the loop task leaves alone besides its own record
loopRest == << cancelled, stopping, timerVars, segVars, storeVars, workerVars >>

\* a perceptual hash is the set of its one bits; compute_phash returns the hashes
\* it encodes itself, so both arguments of a comparison decode
Hashes == {{}, 1..PHASH_CHANGE_THRESHOLD, 1..(PHASH_CHANGE_THRESHOLD + 1)}

\* phash.rs 80-88 compute_hamming_distance: the number of bits that differ
compute_hamming_distance(lhs, rhs) == Cardinality((lhs \ rhs) \cup (rhs \ lhs))

\* loop_worker.rs 295-299 cooldown_elapsed
cooldown_elapsed(last_ocr_time) ==
    IF IsSome(last_ocr_time) THEN Unwrap(last_ocr_time) >= OCR_COOLDOWN_SECS ELSE TRUE

\* loop_worker.rs 274-293 should_perform_ocr_with_reason
should_perform_ocr_with_reason(current_phash, last_ocr_phash, last_ocr_time) ==
    IF ~IsSome(last_ocr_phash) THEN TRUE
    ELSE IF ~cooldown_elapsed(last_ocr_time) THEN FALSE
    ELSE compute_hamming_distance(current_phash, Unwrap(last_ocr_phash)) >= PHASH_CHANGE_THRESHOLD

\* loop_worker.rs 105: the bundle id given to a window without one
SystemBundle == "com.apple.system"

\* the sizes of a screenshot: just under and just at the limit of line 160
ScreenshotSizes == {MIN_SCREENSHOT_BYTES - 1, MIN_SCREENSHOT_BYTES}

\* loop_worker.rs 108-118, 234-244: the ContextReading of the tick in flight
ContextReading(c) ==
    [session_id |-> c.session_id, timestamp |-> c.timestamp, bundle_id |-> c.bundle_id,
     phash |-> c.phash, ocr_text |-> c.ocr_text]

\* the positions of a tick: the awaits of perform_capture (loop_worker.rs 85-96,
\* 153-156, 178-183, 197-202, 121-123 and 246-248)
TickSteps == {"metadata", "screenshot", "phash", "ocr", "write"}

InTick == capture.pc \in TickSteps

\* sensing/controller.rs 27-50 start_sensing: a fresh token, the loop is spawned;
\* loop_worker.rs 34-39: the first tick of the interval is due at once, the gate
\* of text recognition is empty
StartSensingLoop ==
    /\ stopping # "join"
    /\ sensing = None
    /\ capture.pc = "none"
    /\ sensing' = Some(1)
    /\ cancelled' = FALSE
    /\ capture' = [CaptureNone EXCEPT !.pc = "select", !.session_id = 1]
    /\ stopping' = "idle"
    /\ UNCHANGED << now, context_readings, dbQueue, loops, loadedFor, timerRest, segVars, storeVars, workerVars >>

\* loop_worker.rs 41-55: tokio::select! takes the branch of ticker.tick(), which is
\* ready when the interval is due; select! polls its branches in random order, so
\* a ready tick can be taken whether or not the token is cancelled.  The next
\* tick is due one interval later (MissedTickBehavior::Delay).  The tick takes
\* its timestamp from the wall clock.
LoopTick ==
    /\ capture.pc = "select"
    /\ capture.until_tick = 0
    /\ capture' = [capture EXCEPT !.pc = "metadata", !.tick_elapsed = 0,
                                  !.until_tick = CAPTURE_INTERVAL_SECS,
                                  !.timestamp = now]
    /\ UNCHANGED << now, context_readings, dbQueue, loops, loadedFor, loopRest >>

\* loop_worker.rs 63-66: tokio::select! takes the branch of cancel_token.cancelled()
LoopExit ==
    /\ capture.pc = "select"
    /\ cancelled
    /\ capture' = [capture EXCEPT !.pc = "done"]
    /\ UNCHANGED << now, context_readings, dbQueue, loops, loadedFor, loopRest >>

\* variant of EndTick in which a tick that did not return Ok ends the loop
EndTickFatal(outcome) ==
    [capture EXCEPT !.pc = IF outcome = "ok" THEN "select" ELSE "done",
                    !.outcome = outcome,
                    !.bundle_id = "", !.screenshot_bytes = 0, !.phash = None,
                    !.ocr_text = None]
\* loop_worker.rs 57-61: the tick is over, with Ok, with an error or by the timeout;
\* its locals are dropped and the loop is back at select!
EndTick(outcome) ==
    [capture EXCEPT !.pc = "select", !.outcome = outcome,
                    !.bundle_id = "", !.screenshot_bytes = 0, !.phash = None,
                    !.ocr_text = None]

\* perform_capture goes on to its next await, or returns
TickNext(next, outcome) ==
    IF next = "end" THEN EndTick(outcome) ELSE [capture EXCEPT !.pc = next]

\* db/mod.rs 154-176 execute, first half: the command is sent to the queue of the
\* one worker thread; the caller then waits for the reply
send_insert(q, reading) == Append(q, reading)

\* variant of TickMetadata that treats a window without bundle id like any other
TickMetadataNoSystem(result) ==
    /\ capture.pc = "metadata"
    /\ capture' = IF result = "error" THEN TickNext("end", "err")
                  ELSE [capture EXCEPT !.pc = "screenshot", !.bundle_id = result]
    /\ UNCHANGED << dbQueue, now, context_readings, loops, loadedFor, loopRest >>
\* loop_worker.rs 85-149: the metadata of the active window; an error ends the tick;
\* a window without bundle id gets the bundle id of the system and its reading is
\* sent to the database without screenshot; for any other window the tick goes on
\* to the screenshot
TickMetadata(result) ==
    /\ capture.pc = "metadata"
    /\ IF result = "error"
       THEN /\ capture' = TickNext("end", "err")
            /\ UNCHANGED dbQueue
       ELSE IF result = ""
       THEN LET c == [capture EXCEPT !.bundle_id = SystemBundle]
            IN /\ capture' = [c EXCEPT !.pc = "write"]
               /\ dbQueue' = send_insert(dbQueue, ContextReading(c))
       ELSE /\ capture' = [capture EXCEPT !.pc = "screenshot", !.bundle_id = result]
            /\ UNCHANGED dbQueue
    /\ UNCHANGED << now, context_readings, loops, loadedFor, loopRest >>

\* variant of TickScreenshot without the check of the size
TickScreenshotAnySize(result) ==
    /\ capture.pc = "screenshot"
    /\ capture' = IF ~IsSome(result) THEN TickNext("end", "err")
                  ELSE [capture EXCEPT !.pc = "phash", !.screenshot_bytes = Unwrap(result)]
    /\ UNCHANGED << now, context_readings, dbQueue, loops, loadedFor, loopRest >>
\* loop_worker.rs 151-165: the screenshot, None for a capture that failed; an error
\* ends the tick, and so does a screenshot under 1000 bytes
TickScreenshot(result) ==
    /\ capture.pc = "screenshot"
    /\ capture' = IF ~IsSome(result) THEN TickNext("end", "err")
                  ELSE IF Unwrap(result) < MIN_SCREENSHOT_BYTES THEN TickNext("end", "ok")
                  ELSE [capture EXCEPT !.pc = "phash", !.screenshot_bytes = Unwrap(result)]
    /\ UNCHANGED << now, context_readings, dbQueue, loops, loadedFor, loopRest >>

\* loop_worker.rs 231-248: the hash is kept as the last sampled one and the reading
\* is sent to the database
sample_and_send(c) == [c EXCEPT !.last_sampled_phash = c.phash, !.pc = "write"]

\* loop_worker.rs 177-195, 227-229: the perceptual hash, None for a computation
\* that failed; then OCR if should_perform_ocr_with_reason says so, else the
\* reading is sent as it is
TickPhash(result) ==
    /\ capture.pc = "phash"
    /\ IF ~IsSome(result)
       THEN /\ capture' = TickNext("end", "err")
            /\ UNCHANGED dbQueue
       ELSE LET c == [capture EXCEPT !.phash = result]
            IN IF should_perform_ocr_with_reason(Unwrap(result), capture.last_ocr_phash,
                                                 capture.last_ocr_time)
               THEN /\ capture' = [c EXCEPT !.pc = "ocr"]
                    /\ UNCHANGED dbQueue
               ELSE /\ capture' = sample_and_send(c)
                    /\ dbQueue' = send_insert(dbQueue, ContextReading(c))
    /\ UNCHANGED << now, context_readings, loops, loadedFor, loopRest >>

\* loop_worker.rs 196-226: OCR; a failed join of the worker ends the tick; a failed
\* run_ocr is logged and the reading goes out without text; after a successful
\* one the gate holds this hash and this instant
TickOcr(result) ==
    /\ capture.pc = "ocr"
    /\ IF result = "error"
       THEN /\ capture' = TickNext("end", "err")
            /\ UNCHANGED dbQueue
       ELSE LET c == IF result = "ok"
                     THEN [capture EXCEPT !.ocr_text = Some("text"),
                                          !.last_ocr_time = Some(0),
                                          !.last_ocr_phash = capture.phash]
                     ELSE capture
            IN /\ capture' = sample_and_send(c)
               /\ dbQueue' = send_insert(dbQueue, ContextReading(c))
    /\ UNCHANGED << now, context_readings, loops, loadedFor, loopRest >>

\* variant of execute_insert that runs the newest command of the queue
execute_insert_newest(rows, q, result) ==
    IF result = "ok" THEN Append(rows, q[Len(q)]) ELSE rows
\* db/mod.rs 119-126, 163-168 and context_readings.rs 25-54: the worker thread takes
\* the oldest command of the queue and runs its INSERT, which adds the row or fails
execute_insert(rows, q, result) == IF result = "ok" THEN Append(rows, Head(q)) ELSE rows

\* the tick waits for the reply of its own command, the last one of the queue
OwnInsertNext == capture.pc = "write" /\ Len(dbQueue) = 1

\* loop_worker.rs 120-148, 246-271: the INSERT of the tick is executed and its
\* reply ends the tick
TickWrite(result) ==
    /\ OwnInsertNext
    /\ context_readings' = execute_insert(context_readings, dbQueue, result)
    /\ dbQueue' = Tail(dbQueue)
    /\ capture' = IF result = "error" THEN TickNext("end", "err") ELSE TickNext("end", "ok")
    /\ UNCHANGED << now, loops, loadedFor, loopRest >>

\* db/mod.rs 163-168: the INSERT of a tick that was dropped by its timeout is
\* executed all the same; nobody receives the reply
DbExecute(result) ==
    /\ dbQueue # << >>
    /\ ~OwnInsertNext
    /\ context_readings' = execute_insert(context_readings, dbQueue, result)
    /\ dbQueue' = Tail(dbQueue)
    /\ UNCHANGED << capture, now, loops, loadedFor, loopRest >>

\* loop_worker.rs 57, 60: tokio::time::timeout drops perform_capture at its await
\* when CAPTURE_TIMEOUT_SECS have passed
TickTimeout ==
    /\ InTick
    /\ capture.tick_elapsed >= CAPTURE_TIMEOUT_SECS
    /\ capture' = EndTick("timeout")
    /\ UNCHANGED << now, context_readings, dbQueue, loops, loadedFor, loopRest >>

\* db/mod.rs 119-126: the worker thread of the database
DbWorker == \E result \in {"ok", "error"} : DbExecute(result)

\* one step of the tick in flight
TickProgress ==
    \/ \E result \in {"app", "", "error"} : TickMetadata(result)
    \/ \E result \in {Some(n) : n \in ScreenshotSizes} \cup {None} : TickScreenshot(result)
    \/ \E result \in {Some(h) : h \in Hashes} \cup {None} : TickPhash(result)
    \/ \E result \in {"ok", "failed", "error"} : TickOcr(result)
    \/ \E result \in {"ok", "error"} : TickWrite(result)
    \/ TickTimeout

\* time passes for the loop, ClockStep seconds at a time: the interval comes
\* nearer, the tick in flight and the instant of the last OCR get older (an age
\* is counted up to the cooldown, beyond which it is not told apart).  Time does
\* not pass while select! has a ready branch or the timeout is due.
LoopAdvance ==
    /\ capture.pc \in TickSteps \cup {"select"}
    /\ capture.pc = "select" => capture.until_tick > 0 /\ ~cancelled
    /\ InTick => capture.tick_elapsed < CAPTURE_TIMEOUT_SECS
    /\ now < MaxClock
    /\ now' = now + ClockStep
    /\ capture' = [capture EXCEPT
                       !.until_tick = IF @ > ClockStep THEN @ - ClockStep ELSE 0,
                       !.tick_elapsed = IF InTick THEN @ + ClockStep ELSE @,
                       !.last_ocr_time = IF IsSome(@)
                                         THEN Some(Min(Unwrap(@) + ClockStep, OCR_COOLDOWN_SECS))
                                         ELSE @]
    /\ UNCHANGED << context_readings, dbQueue, loops, loadedFor, loopRest >>

\* variant of StopSignal that takes the handle and does not cancel the token
StopSignalNoCancel ==
    /\ stopping = "idle"
    /\ IsSome(sensing)
    /\ sensing' = None
    /\ stopping' = "join"
    /\ UNCHANGED << cancelled, capture, now, context_readings, dbQueue, loops, loadedFor, timerRest, segVars, storeVars, workerVars >>
\* sensing/controller.rs 60-67 stop_sensing: the token is cancelled, the handle is
\* taken and awaited
StopSignal ==
    /\ stopping = "idle"
    /\ IsSome(sensing)
    /\ cancelled' = TRUE
    /\ sensing' = None
    /\ stopping' = "join"
    /\ UNCHANGED << capture, now, context_readings, dbQueue, loops, loadedFor, timerRest, segVars, storeVars, workerVars >>

\* sensing/controller.rs 65-69: the loop task has finished, stop_sensing returns
StopJoin ==
    /\ stopping = "join"
    /\ capture.pc = "done"
    /\ stopping' = "returned"
    /\ UNCHANGED << capture, cancelled, now, context_readings, dbQueue, loops, loadedFor, timerVars, segVars, storeVars, workerVars >>

\* one step of the capture loop, of the database worker, of the clock or of the
\* controller that starts and stops the loop
LoopStep ==
    \/ StartSensingLoop
    \/ LoopTick
    \/ LoopExit
    \/ TickProgress
    \/ DbWorker
    \/ LoopAdvance
    \/ StopSignal
    \/ StopJoin

LoopNext == LoopStep /\ UNCHANGED gateVars

LoopSpec == Init /\ [][LoopNext]_vars

\* the age of an instant after ClockStep more seconds, counted up to the cooldown
older(t) == IF IsSome(t) THEN Some(Min(Unwrap(t) + ClockStep, OCR_COOLDOWN_SECS)) ELSE t

\* loop_worker.rs 196-202: the history of the calls of run_ocr.  The tick calls
\* run_ocr when it goes from the hash to OCR; the time since the last call
\* passes with the clock.
RunOcrHistory ==
    lastRunOcr' =
        IF capture.pc = "phash" /\ capture'.pc = "ocr"
        THEN [since |-> Some(0), gap |-> lastRunOcr.since]
        ELSE IF now' # now
             THEN [lastRunOcr EXCEPT !.since = older(@)]
             ELSE lastRunOcr

\* the capture loop with the history of its calls of run_ocr
GateNext == LoopStep /\ RunOcrHistory

GateSpec == Init /\ [][GateNext]_vars

\* The tick in flight goes on, the database worker runs and the joined handle is
\* noticed; select! picks among its ready branches at random, so the branch of
\* the cancelled token is not passed over forever.
LoopFairSpec ==
    /\ LoopSpec
    /\ WF_vars(TickProgress /\ UNCHANGED gateVars)
    /\ WF_vars(DbWorker /\ UNCHANGED gateVars)
    /\ SF_vars(LoopExit /\ UNCHANGED gateVars)
    /\ WF_vars(StopJoin /\ UNCHANGED gateVars)

\* Besides, time passes and a tick that is due is taken.
LoopLiveSpec ==
    /\ LoopFairSpec
    /\ WF_vars(LoopTick /\ UNCHANGED gateVars)
    /\ WF_vars(LoopAdvance /\ UNCHANGED gateVars)

\* ------------------------------------------------------------ segments and interruptions store
\* db/mod.rs 150-176: the closures sent to the database run one at a time on one
\* worker thread with one connection, so at most one transaction is open.  A
\* transaction works on its own view of the tables: commit publishes the view,
\* and dropping the Transaction (a `?` that returns early) rolls it back.  The
\* schema is not part of the sources read here, so whether a statement succeeds
\* is an input of each step.
StoreIds == 1..MaxStored

storeRest == << timerVars, segVars, loopVars, gateVars, workerVars >>

SegmentRow(id, sid) == [id |-> id, session_id |-> sid]
InterruptionRow(id, seg) == [id |-> id, segment_id |-> seg]

\* lists of at most MaxStored different elements of S
Distinct(S) ==
    {q \in UNION {[1..n -> S] : n \in 0..MaxStored} :
        \A a, b \in DOMAIN q : a # b => q[a] # q[b]}

\* algorithm.rs 154, 382 and merge.rs 47: ids are Uuid::new_v4(), so the ids of a
\* call are in no table yet
FreshSegments(sid) ==
    {[k \in DOMAIN q |-> SegmentRow(q[k], sid)] :
        q \in Distinct(StoreIds \ {r.id : r \in segments_table})}

FreshInterruptions ==
    UNION {{[k \in DOMAIN q |-> InterruptionRow(q[k], owner[k])] :
               owner \in [DOMAIN q -> StoreIds]} :
           q \in Distinct(StoreIds \ {r.id : r \in interruptions_table})}

\* the Transaction is dropped without commit, which leaves the tables as they were
rollback_partial(table, view) == view
rollback(table, view) == table

\* tx.commit()
commit(table, view) == view

\* a `?` returns the error of a statement: the transaction is dropped
TxFail(error) ==
    /\ segments_table' = rollback(segments_table, tx.segments_table)
    /\ interruptions_table' = rollback(interruptions_table, tx.interruptions_table)
    /\ tx' = TxNone
    /\ storeReturned' = error

TxStep(t) ==
    /\ tx' = t
    /\ storeReturned' = "none"
    /\ UNCHANGED << segments_table, interruptions_table >>

\* segments.rs 245, 301-307: the loop over the segments is followed by the loop over
\* the interruptions, and that one by the commit
after_loops(t) ==
    IF t.pc = "segments" /\ t.i > Len(t.segments)
    THEN IF t.interruptions = << >>
         THEN [t EXCEPT !.pc = "commit", !.i = 1]
         ELSE [t EXCEPT !.pc = "interruptions", !.i = 1]
    ELSE IF t.pc = "interruptions" /\ t.i > Len(t.interruptions)
         THEN [t EXCEPT !.pc = "commit", !.i = 1]
         ELSE t

\* segments.rs 229-240: insert_segments_and_interruptions opens its transaction
InsertBegin(sid, segments, interruptions, result) ==
    /\ tx.pc = "none"
    /\ IF result = "ok"
       THEN TxStep(after_loops(
                [pc |-> "segments", op |-> "insert", session_id |-> sid,
                 segments |-> segments, interruptions |-> interruptions, i |-> 1,
                 segments_table |-> segments_table,
                 interruptions_table |-> interruptions_table]))
       ELSE TxFail("insert_err_begin")
    /\ UNCHANGED storeRest

\* segments.rs 245-298: ensure_app_exists and the INSERT of one segment
InsertSegment(result) ==
    /\ tx.pc = "segments"
    /\ IF result = "ok"
       THEN TxStep(after_loops(
                [tx EXCEPT !.segments_table = @ \cup {tx.segments[tx.i]},
                           !.i = @ + 1]))
       ELSE TxFail("insert_err_segment")
    /\ UNCHANGED storeRest

\* segments.rs 300-340: an interruption whose segment is not among the segments of
\* this call is skipped, the others are inserted
InsertInterruption(result) ==
    /\ tx.pc = "interruptions"
    /\ LET interruption == tx.interruptions[tx.i]
           segment_ids == {tx.segments[k].id : k \in 1..Len(tx.segments)}
       IN  IF interruption.segment_id \notin segment_ids
           THEN TxStep(after_loops([tx EXCEPT !.i = @ + 1]))
           ELSE IF result = "ok"
                THEN TxStep(after_loops(
                         [tx EXCEPT !.interruptions_table = @ \cup {interruption},
                                    !.i = @ + 1]))
                ELSE TxFail("insert_err_interruption")
    /\ UNCHANGED storeRest

\* sessions.rs 293-296: delete_session opens its transaction
DeleteBegin(sid, result) ==
    /\ tx.pc = "none"
    /\ IF result = "ok"
       THEN TxStep([pc |-> "delete_interruptions", op |-> "delete", session_id |-> sid,
                    segments |-> << >>, interruptions |-> << >>, i |-> 1,
                    segments_table |-> segments_table,
                    interruptions_table |-> interruptions_table])
       ELSE TxFail("delete_err")
    /\ UNCHANGED storeRest

\* sessions.rs 298-309: first the interruptions of the session's segments are
\* deleted, then its segments.  The DELETE of the sessions row (311-320) is not
\* modelled: the sessions table is no part of this store.
DeleteStatement(result) ==
    /\ tx.pc \in {"delete_interruptions", "delete_segments"}
    /\ IF result = "ok"
       THEN LET of_session == {r.id : r \in {g \in tx.segments_table :
                                                 g.session_id = tx.session_id}}
            IN  IF tx.pc = "delete_interruptions"
                THEN TxStep([tx EXCEPT
                         !.pc = "delete_segments",
                         !.interruptions_table =
                             {r \in @ : r.segment_id \notin of_session}])
                ELSE TxStep([tx EXCEPT
                         !.pc = "commit",
                         !.segments_table =
                             {g \in @ : g.session_id # tx.session_id}])
       ELSE TxFail("delete_err")
    /\ UNCHANGED storeRest

\* segments.rs 346 and sessions.rs 322: tx.commit()
TxCommit(result) ==
    /\ tx.pc = "commit"
    /\ IF result = "ok"
       THEN /\ segments_table' = commit(segments_table, tx.segments_table)
            /\ interruptions_table' = commit(interruptions_table, tx.interruptions_table)
            /\ tx' = TxNone
            /\ storeReturned' = IF tx.op = "insert" THEN "insert_ok" ELSE "delete_ok"
       ELSE TxFail(IF tx.op = "insert" THEN "insert_err_commit" ELSE "delete_err")
    /\ UNCHANGED storeRest

StoreNext ==
    \/ \E sid \in StoreIds, result \in {"ok", "err"} :
          \E segments \in FreshSegments(sid), interruptions \in FreshInterruptions :
              InsertBegin(sid, segments, interruptions, result)
    \/ \E result \in {"ok", "err"} : InsertSegment(result)
    \/ \E result \in {"ok", "err"} : InsertInterruption(result)
    \/ \E sid \in StoreIds, result \in {"ok", "err"} : DeleteBegin(sid, result)
    \/ \E result \in {"ok", "err"} : DeleteStatement(result)
    \/ \E result \in {"ok", "err"} : TxCommit(result)

StoreSpec == Init /\ [][StoreNext]_vars

\* Database::execute and the worker thread of the database (db/mod.rs)

workerRest == << timerVars, segVars, loopVars, storeVars, gateVars >>

\* the commands are numbered in the order of their send
sent_commands == Len(conn_log) + (IF IsSome(worker_task) THEN 1 ELSE 0) + Len(command_rx)

\* variant of recv that takes the newest command of the channel
recv_newest(rx) == [command |-> rx[Len(rx)], rest |-> SubSeq(rx, 1, Len(rx) - 1)]
\* db/mod.rs 119 command_rx.recv(): std::sync::mpsc hands out the commands in the
\* order of their send
recv(rx) == [command |-> Head(rx), rest |-> Tail(rx)]

\* db/mod.rs 159-174 Database::execute up to its await: a oneshot channel is made,
\* the command that runs the task and sends its result to that channel goes to
\* the worker's channel
ExecuteSend(p) ==
    /\ execCalls[p].pc = "idle"
    /\ sent_commands < MaxCommands
    /\ LET id == sent_commands + 1
       IN /\ command_rx' = Append(command_rx, id)
          /\ reply_rx' = [reply_rx EXCEPT ![id] = [state |-> "open", value |-> None]]
          /\ execCalls' = [execCalls EXCEPT ![p].pc = "await", ![p].command = Some(id)]
    /\ UNCHANGED << worker_task, conn_log, workerRest >>

\* db/mod.rs 119-121: the worker thread takes the next command
WorkerRecv ==
    /\ worker_task = None
    /\ command_rx # << >>
    /\ worker_task' = Some(recv(command_rx).command)
    /\ command_rx' = recv(command_rx).rest
    /\ UNCHANGED << conn_log, reply_rx, execCalls, workerRest >>

\* db/mod.rs 121-122, 162-167: the worker runs the task on the connection and
\* sends its result to the command's own channel; the send fails, and is logged,
\* when the receiver was dropped
WorkerRun(result) ==
    /\ IsSome(worker_task)
    /\ LET id == Unwrap(worker_task)
           value == [command |-> id, result |-> result, after |-> Len(conn_log)]
       IN /\ conn_log' = Append(conn_log, id)
          /\ reply_rx' = IF reply_rx[id].state = "open"
                         THEN [reply_rx EXCEPT ![id] = [state |-> "sent", value |-> Some(value)]]
                         ELSE reply_rx
    /\ worker_task' = None
    /\ UNCHANGED << command_rx, execCalls, workerRest >>

\* db/mod.rs 173-175: the caller's await of its reply_rx ends with the value sent
ExecuteReceive(p) ==
    /\ execCalls[p].pc = "await"
    /\ LET id == Unwrap(execCalls[p].command)
       IN /\ reply_rx[id].state = "sent"
          /\ execCalls' = [execCalls EXCEPT
                               ![p].pc = "idle", ![p].command = None,
                               ![p].returned = Append(@, [command |-> id,
                                                          value |-> Unwrap(reply_rx[id].value)])]
          /\ reply_rx' = [reply_rx EXCEPT ![id] = [state |-> "taken", value |-> None]]
    /\ UNCHANGED << command_rx, worker_task, conn_log, workerRest >>

\* the caller's future is dropped at its await (loop_worker.rs 57: the timeout of
\* a tick): the receiver of its channel goes with it
ExecuteDrop(p) ==
    /\ execCalls[p].pc = "await"
    /\ LET id == Unwrap(execCalls[p].command)
       IN reply_rx' = [reply_rx EXCEPT ![id] = [state |-> "dropped", value |-> None]]
    /\ execCalls' = [execCalls EXCEPT ![p].pc = "idle", ![p].command = None]
    /\ UNCHANGED << command_rx, worker_task, conn_log, workerRest >>

WorkerNext ==
    \/ \E p \in Callers : ExecuteSend(p)
    \/ WorkerRecv
    \/ \E result \in {"ok", "err"} : WorkerRun(result)
    \/ \E p \in Callers : ExecuteReceive(p)
    \/ \E p \in Callers : ExecuteDrop(p)

WorkerSpec == Init /\ [][WorkerNext]_vars

\* The worker thread runs whenever it has a command, and a caller whose reply has
\* arrived is woken.
WorkerFairSpec ==
    /\ WorkerSpec
    /\ WF_vars(WorkerRecv)
    /\ WF_vars(\E result \in {"ok", "err"} : WorkerRun(result))
    /\ \A p \in Callers : WF_vars(ExecuteReceive(p))

\* ------------------------------------------------------------ session controller: properties
RunningRows == {s \in DOMAIN db : db[s].status = "Running"}

\* everything start_timer, end_timer and cancel_timer can change, but the timer
\* state itself
Effects == << db, segmentsFor, sensing, tickerHandle, tickers, pending, call, nextSid >>

\* the step is the first step of an accepted command of caller p
Accepts(p, pcs) == call[p].pc = "idle" /\ call'[p].pc \in pcs

\* C1: at most one session record has persisted status Running, whatever the
\* interleaving of start_timer, end_timer, cancel_timer and ticker steps
C1_AtMostOneRunning == Cardinality(RunningRows) <= 1

\* C2: a start_timer call made while the status is not Idle is never accepted, and
\* the step in which start_timer returns its error changes neither the state nor the
\* session records, the capture loop or the tickers, and sends no notification
C2_StartRejected ==
    [][/\ \A p \in Callers : Accepts(p, {"start_begin"}) => st.status = "Idle"
       /\ returned' \in {"start_err_active", "start_err_target"}
            => UNCHANGED << st, Effects >> /\ ~emitted'
       /\ returned' = "start_err_active" => st.status # "Idle"]_vars

\* C2 witness: start_timer has just been rejected on a Stopped controller
C2_Witness == returned = "start_err_active" /\ st.status = "Stopped" /\ Cardinality(DOMAIN db) = 1

\* C3 as stated: end_timer and cancel_timer are accepted only when the status is Running
C3_OnlyFromRunning ==
    [][\A p \in Callers :
          Accepts(p, {"end_sensing", "end_ticker", "cancel_sensing", "cancel_ticker"})
            => st.status = "Running"]_vars

\* C3 amended: end_timer and cancel_timer are accepted exactly when the status is
\* not Idle (Running, or Stopped after auto-completion) and a session id is tracked;
\* in Idle end_timer returns an error and cancel_timer returns Ok, with no session id
\* both return an error, and none of these returns changes the state, writes to the
\* session records or sends a notification
C3_AcceptedUnlessIdle ==
    [][/\ \A p \in Callers :
            Accepts(p, {"end_sensing", "end_ticker", "cancel_sensing", "cancel_ticker"})
              => st.status # "Idle" /\ IsSome(st.session_id)
       /\ returned' \in {"end_err_idle", "cancel_ok_idle"}
            => st.status = "Idle" /\ UNCHANGED << st, Effects >> /\ ~emitted'
       /\ returned' \in {"end_err_missing", "cancel_err_missing"}
            => /\ st.status # "Idle" /\ ~IsSome(st.session_id)
               /\ UNCHANGED << st, Effects >> /\ ~emitted']_vars

\* C3 witness: end_timer is in progress on a session whose ticker had already
\* stopped the controller (the ticker's final snapshot names the session)
C3_Witness ==
    \E p \in Callers : \E t \in SessionIds :
        /\ call[p].pc = "end_sensing" /\ call[p].sid = Some(t)
        /\ tickers[t].pc = "stop_sensing" /\ tickers[t].final.session_id = Some(t)

\* C4: the state a session's ticker leaves behind at the completion edge is Stopped
\* with active_ms equal to that session's target
C4_StopsAtTarget ==
    \A t \in SessionIds :
        tickers[t].pc = "stop_sensing" /\ t \in DOMAIN db
            => /\ tickers[t].final.status = "Stopped"
               /\ tickers[t].final.active_ms = db[t].target_ms

\* C5 as stated: once the ticker has gone through the completion edge of a session
\* and its write has been executed, the session record is no longer Running
C5_TerminalAfterEdge ==
    \A t \in DOMAIN db :
        /\ st.status = "Stopped" /\ st.session_id = Some(t)
        /\ tickers[t].pc = "none" /\ pending = {}
        => db[t].status # "Running"

\* the step is the last step of the completion edge of ticker t, with its write spawned
FinishesEdge(t) ==
    tickers[t].pc \in {"stop_sensing", "join"} /\ tickers'[t].pc = "none" /\ pending' # pending

\* C5 amended: the last step of the completion edge stops the capture loop and
\* spawns one progress write for the stopped session with active_ms clamped to its
\* target; no progress write exceeds the target of its session record; the persisted
\* status stays Running until end_timer or cancel_timer marks the session
C5_EdgePersistsProgress ==
    [][/\ \A t \in SessionIds : FinishesEdge(t) =>
            /\ sensing' = None
            /\ db' = db
            /\ pending' = pending \cup {[sid |-> Unwrap(tickers[t].final.session_id),
                                        active_ms |-> Min(tickers[t].final.active_ms,
                                                          tickers[t].final.target_ms)]}
       /\ \A w \in pending' : w.sid \in DOMAIN db' => w.active_ms <= db'[w.sid].target_ms
       /\ \A s \in DOMAIN db : db[s].status = "Running" /\ db'[s].status # "Running"
            => \E p \in Callers : /\ call[p].pc \in {"end_mark", "cancel_mark"}
                                  /\ call[p].sid = Some(s)]_vars

\* C5 witness: the completion edge is over, the capture loop is stopped, the final
\* progress write is on its way and the session record is still Running
C5_Witness ==
    \E t \in DOMAIN db :
        /\ st.status = "Stopped" /\ st.session_id = Some(t) /\ tickers[t].pc = "none"
        /\ sensing = None /\ db[t].status = "Running"
        /\ [sid |-> t, active_ms |-> db[t].target_ms] \in pending

\* C6: when a successful end_timer returns, the controller is Idle (or already
\* tracks a session started since)
C6_EndLeavesIdle ==
    [][\A p \in Callers : call[p].pc = "end_mark" /\ call'[p].pc = "idle"
          => st'.status = "Idle" \/ IsSome(st'.session_id)]_vars

\* C7: when a successful cancel_timer returns, the controller is Idle (or already
\* tracks a session started since)
C7_CancelLeavesIdle ==
    [][\A p \in Callers : call[p].pc = "cancel_mark" /\ call'[p].pc = "idle"
          => st'.status = "Idle" \/ IsSome(st'.session_id)]_vars

\* ------------------------------------------------------------ segmentation engine: properties
SegDone == segOut.pc = "done" /\ readings # << >>

Inside(t, seg) == seg.start_time <= t /\ t <= seg.end_time

FirstTs == readings[1].timestamp
LastTs == readings[Len(readings)].timestamp

C9_InterruptionsOwned ==
    SegDone =>
        \A i \in 1..Len(segOut.interruptions) :
            \E k \in 1..Len(segOut.segments) :
                /\ segOut.segments[k].id = segOut.interruptions[i].segment_id
                /\ Inside(segOut.interruptions[i].timestamp, segOut.segments[k])

\* the scenario of C10: A at 0, 5, ..., 25 s, B at 30 s, A at 35, 40, ..., 65 s
C10_Scenario ==
    Timeline(Run("A", 6) \o Run("B", 1) \o Run("A", 7),
             [i \in 1..14 |-> IF i = 1 THEN 0 ELSE CAPTURE_INTERVAL_SECS], 0)

\* C10: for A (0-30 s), B (30-35 s), A (35-65 s) segment_session returns exactly one
\* segment, of A, from the first to the last reading, and exactly one interruption,
\* recorded for B and owned by that segment
C10_SandwichOfSpec ==
    SegDone /\ readings = C10_Scenario =>
        /\ Len(segOut.segments) = 1
        /\ segOut.segments[1].bundle_id = "A"
        /\ segOut.segments[1].start_time = FirstTs
        /\ segOut.segments[1].end_time = LastTs
        /\ Len(segOut.interruptions) = 1
        /\ segOut.interruptions[1].bundle_id = "B"
        /\ segOut.interruptions[1].segment_id = segOut.segments[1].id

\* ------------------------------------------------------------ sandwich_merge: properties
MergeDone == segOut.pc = "merged"

\* a chain A, B, A, B, A handed to sandwich_merge in which each B is a run of one
\* application (a Stable segment, algorithm.rs 405-430) no longer than the threshold
IsChain(input) ==
    /\ Len(input) = 5
    /\ input[3].bundle_id = input[1].bundle_id
    /\ input[5].bundle_id = input[1].bundle_id
    /\ input[2].bundle_id # input[1].bundle_id
    /\ input[4].bundle_id = input[2].bundle_id
    /\ \A k \in {2, 4} : /\ input[k].segment_type = "Stable"
                          /\ input[k].duration_secs <= sandwich_max_duration_secs

\* C11: sandwich_merge folds a chain A, B, A, B, A whose B runs are no longer than
\* the sandwich threshold into one host segment of A that spans the whole chain,
\* and records one interruption per B run, two in all, each owned by the host
C11_ChainFolded ==
    MergeDone /\ IsChain(segOut.segments_with_readings) =>
        LET input == segOut.segments_with_readings
            host == segOut.segments[1]
            ints == segOut.interruptions
        IN /\ Len(segOut.segments) = 1
           /\ host.id = input[1].id
           /\ host.bundle_id = input[1].bundle_id
           /\ host.start_time = input[1].start_time
           /\ host.end_time = input[5].end_time
           /\ Len(ints) = 2
           /\ \A k \in 1..2 : /\ ints[k].segment_id = host.id
                               /\ ints[k].bundle_id = input[2].bundle_id
                               /\ ints[k].timestamp = input[2 * k].start_time
                               /\ ints[k].duration_secs = input[2 * k].duration_secs

\* C11 witness: sandwich_merge has returned for such a chain, with long A segments
C11_Witness ==
    /\ MergeDone
    /\ IsChain(segOut.segments_with_readings)
    /\ segOut.segments_with_readings[3].duration_secs > sandwich_max_duration_secs
    /\ Len(segOut.interruptions) = 2

\* C12: sandwich_merge terminates on every segment list, and what it returns is a
\* fixpoint: no adjacent triple of the output qualifies for a merge, and
\* sandwich_merge applied to the output returns the same segments and records no
\* interruption
C12_Fixpoint ==
    /\ [](MergeDone =>
            /\ \A i \in 1..Len(segOut.segments) : ~is_sandwich(segOut.segments, i)
            /\ sandwich_merge(segOut.segments, << >>) =
                    [segments |-> segOut.segments, interruptions |-> << >>])
    /\ (segOut.pc = "merging" ~> MergeDone)

\* C12 witness: sandwich_merge has returned after a merge, and its output still
\* holds a triple of segments, which does not qualify
C12_Witness ==
    /\ MergeDone
    /\ Len(segOut.interruptions) >= 1
    /\ Len(segOut.segments) >= 3

\* ------------------------------------------------------------ segment_session: more properties
\* C13: two runs of segment_session on the same reading list return identical
\* segments and interruptions: ids, boundaries, applications, window titles (also
\* when two titles are equally frequent), counts and scores
C13_SameResult ==
    SegDone /\ IsSome(earlier) =>
        /\ segOut.segments = Unwrap(earlier).segments
        /\ segOut.interruptions = Unwrap(earlier).interruptions

InUnit(score) == IsSome(score) /\ Unwrap(score) \in 0..1000

\* C14: when the OCR confidences of the readings lie in [0, 1], every returned
\* segment has its duration, stability, visual-clarity and OCR-quality scores and
\* its confidence in [0, 1] (0..1000 thousandths)
C14_ScoresInUnit ==
    SegDone =>
        \A k \in 1..Len(segOut.segments) :
            LET seg == segOut.segments[k]
            IN /\ InUnit(seg.duration_score)
               /\ InUnit(seg.stability_score)
               /\ InUnit(seg.visual_clarity_score)
               /\ InUnit(seg.ocr_quality_score)
               /\ seg.confidence \in 0..1000

\* C14 witness: a result of several segments, one of which absorbed an
\* interruption, has readings that all carry the highest OCR confidence and
\* readings with differing hashes
C14_Witness ==
    /\ SegDone
    /\ Len(segOut.segments) >= 2
    /\ \E k \in 1..Len(segOut.segments) :
          /\ segOut.segments[k].ocr_quality_score = Some(1000)
          /\ segOut.segments[k].reading_count >= 3
          /\ segOut.segments[k].stability_score # Some(1000)
    /\ \E k \in 1..Len(segOut.segments) : segOut.segments[k].visual_clarity_score = Some(0)

AllSameBundle == \A k \in 1..Len(readings) : readings[k].bundle_id = readings[1].bundle_id

\* C15: when all readings are of one application (here ten readings at the
\* capture cadence), segment_session returns exactly one segment and its
\* confidence is at least 0.9
C15_SingleAppConfident ==
    SegDone /\ AllSameBundle /\ readings = TenReadings =>
        /\ Len(segOut.segments) = 1
        /\ segOut.segments[1].confidence >= 900

\* C16: when the session span is below the minimum segment duration, or all
\* readings are of one application, segment_session returns exactly one segment,
\* from the first reading's timestamp to the last reading's timestamp, and no
\* interruption, whatever switches the readings hold
C16_SingleSegment ==
    SegDone /\ (LastTs - FirstTs < min_segment_duration_secs \/ AllSameBundle) =>
        /\ Len(segOut.segments) = 1
        /\ segOut.segments[1].start_time = FirstTs
        /\ segOut.segments[1].end_time = LastTs
        /\ segOut.interruptions = << >>

\* C16 witness: a session under the minimum duration whose readings switch from one
\* application to another and back
C16_Witness ==
    /\ SegDone
    /\ LastTs - FirstTs < min_segment_duration_secs
    /\ LastTs > FirstTs
    /\ \E i, j, k \in 1..Len(readings) :
          /\ i < j /\ j < k
          /\ readings[i].bundle_id = readings[k].bundle_id
          /\ readings[i].bundle_id # readings[j].bundle_id
    /\ Len(segOut.segments) = 1

\* C17: every returned segment, on whichever path it was made, has
\* duration_secs = (end_time - start_time) + one capture interval (5 s)
C17_DurationPlusInterval ==
    SegDone =>
        \A k \in 1..Len(segOut.segments) :
            segOut.segments[k].duration_secs =
                (segOut.segments[k].end_time - segOut.segments[k].start_time)
                + CAPTURE_INTERVAL_SECS

ReadingsInside(seg) == {i \in 1..Len(readings) : Inside(readings[i].timestamp, seg)}

RECURSIVE count_sum(_)
count_sum(segs) == IF segs = << >> THEN 0 ELSE Head(segs).reading_count + count_sum(Tail(segs))

\* C18: for strictly timestamp-ordered readings, the reading_count of every
\* returned segment is the number of input readings whose timestamp lies in
\* [start_time, end_time], the readings of absorbed interruptions included; every
\* input reading is counted in exactly one segment; the counts add up to the
\* number of input readings
C18_ReadingCounts ==
    SegDone =>
        /\ \A k \in 1..Len(segOut.segments) :
              segOut.segments[k].reading_count = Cardinality(ReadingsInside(segOut.segments[k]))
        /\ \A i \in 1..Len(readings) :
              Cardinality({k \in 1..Len(segOut.segments) :
                              i \in ReadingsInside(segOut.segments[k])}) = 1
        /\ count_sum(segOut.segments) = Len(readings)

\* C18 witness: a returned segment that absorbed an interruption, next to another
\* segment
C18_Witness ==
    /\ SegDone
    /\ Len(segOut.segments) >= 2
    /\ \E i \in 1..Len(segOut.interruptions), k \in 1..Len(segOut.segments) :
          /\ segOut.interruptions[i].segment_id = segOut.segments[k].id
          /\ Inside(segOut.interruptions[i].timestamp, segOut.segments[k])
          /\ segOut.segments[k].reading_count >= 3

\* ------------------------------------------------------------ capture loop: properties
\* C19: once the cancellation signal is raised the loop starts no new tick, and a
\* tick in flight when the signal is raised runs to its end or to its own timeout:
\* it leaves the tick only with Ok, with an error, or by the timeout after
\* CAPTURE_TIMEOUT_SECS
C19_NoTickAfterCancel ==
    [][/\ cancelled /\ capture.pc = "select" => capture'.pc # "metadata"
       /\ InTick /\ capture'.pc \notin TickSteps =>
            /\ capture'.pc = "select"
            /\ \/ capture'.outcome \in {"ok", "err"}
               \/ /\ capture'.outcome = "timeout"
                  /\ capture.tick_elapsed >= CAPTURE_TIMEOUT_SECS]_vars

\* C20: after stop_sensing has raised the cancellation signal, the loop terminates
\* and stop_sensing returns, whatever step the tick in flight was in
C20_StopReturns ==
    /\ (stopping = "join" ~> stopping = "returned")
    /\ [](stopping = "returned" => capture.pc = "done")

\* C20 witness: stop_sensing has returned after it had to wait for a tick that ran
\* into its timeout
C20_Witness ==
    /\ stopping = "returned"
    /\ capture.outcome = "timeout"
    /\ cancelled

\* the timestamps of a sequence of readings grow strictly
Increasing(rows) ==
    \A i, j \in 1..Len(rows) : i < j => rows[i].timestamp < rows[j].timestamp

GateUnchanged ==
    /\ capture'.last_ocr_phash = capture.last_ocr_phash
    /\ IsSome(capture'.last_ocr_time) = IsSome(capture.last_ocr_time)
    /\ now' = now => capture'.last_ocr_time = capture.last_ocr_time

\* C24: on a tick that computed a fingerprint, recognition is invoked for the first
\* fingerprint of the session; for any later one it is invoked only if the
\* cooldown has elapsed since the last recognition and the distance to the last
\* recognized fingerprint exceeds the change threshold
C24_OcrGate ==
    [][capture.pc = "phash" /\ IsSome(capture'.phash) =>
         IF capture.last_sampled_phash = None
         THEN capture'.pc = "ocr"
         ELSE capture'.pc = "ocr" =>
                /\ IsSome(capture.last_ocr_phash)
                /\ IsSome(capture.last_ocr_time)
                /\ Unwrap(capture.last_ocr_time) >= OCR_COOLDOWN_SECS
                /\ compute_hamming_distance(Unwrap(capture'.phash),
                                            Unwrap(capture.last_ocr_phash))
                       > PHASH_CHANGE_THRESHOLD]_vars

\* C25: a tick that fails (metadata, screenshot, fingerprint or write error) or
\* runs into the timeout is left without retry and does not end the loop: the
\* loop is back at select!, it ends only when the token is cancelled, and unless
\* the token is cancelled the next tick begins (within the time the clock of the
\* model covers)
C25_FailedTickNotFatal ==
    /\ [][/\ InTick /\ capture'.pc \notin TickSteps => capture'.pc = "select"
          /\ capture'.pc = "done" /\ capture.pc # "done" => cancelled]_vars
    /\ (/\ capture.pc = "select" /\ capture.outcome \in {"err", "timeout"}
        /\ ~cancelled /\ now + capture.until_tick <= MaxClock)
          ~> (capture.pc = "metadata" \/ cancelled)

\* C25 witness: a tick is in flight after a tick that failed or timed out
C25_Witness ==
    /\ InTick
    /\ capture.outcome \in {"err", "timeout"}
    /\ ~cancelled
    /\ capture.timestamp >= CAPTURE_INTERVAL_SECS

\* C26: a tick whose window has no bundle id sends exactly one reading, with the
\* bundle id of the system and without hash and text, takes no screenshot, and
\* leaves the gate of recognition as it was; when its INSERT succeeds exactly that
\* reading is persisted, once
C26_SystemWindow ==
    /\ [][capture.pc = "metadata" /\ capture'.pc = "write" =>
            /\ dbQueue' = Append(dbQueue,
                   [session_id |-> capture.session_id, timestamp |-> capture.timestamp,
                    bundle_id |-> SystemBundle, phash |-> None, ocr_text |-> None])
            /\ context_readings' = context_readings
            /\ GateUnchanged]_vars
    /\ [][capture.pc = "write" /\ capture.bundle_id = SystemBundle =>
            /\ capture'.pc \in {"write", "select"}
            /\ GateUnchanged
            /\ Len(dbQueue') <= Len(dbQueue)
            /\ capture'.pc = "select" /\ capture'.outcome = "ok" =>
                  context_readings' = Append(context_readings,
                      [session_id |-> capture.session_id, timestamp |-> capture.timestamp,
                       bundle_id |-> SystemBundle, phash |-> None, ocr_text |-> None])]_vars
    /\ [](capture.pc \in {"screenshot", "phash", "ocr"} => capture.bundle_id \notin {"", SystemBundle})
    /\ [](\A i \in 1..Len(context_readings) :
            context_readings[i].bundle_id = SystemBundle =>
               context_readings[i].phash = None /\ context_readings[i].ocr_text = None)

\* C26 witness: the reading of a system window is persisted while the gate holds
\* the hash of an earlier recognition
C26_Witness ==
    /\ IsSome(capture.last_ocr_phash)
    /\ capture.pc = "select" /\ capture.outcome = "ok"
    /\ Len(context_readings) >= 2
    /\ context_readings[Len(context_readings)].bundle_id = SystemBundle
    /\ context_readings[Len(context_readings)].timestamp >= CAPTURE_INTERVAL_SECS

\* C27: a tick whose screenshot is under 1000 bytes returns at once: it writes no
\* reading, computes no fingerprint, invokes no recognition and leaves the gate
\* of recognition and the last sampled hash as they were
C27_SmallScreenshot ==
    /\ [][capture.pc = "screenshot" /\ capture'.pc = "select" /\ capture'.outcome = "ok" =>
            /\ dbQueue' = dbQueue
            /\ context_readings' = context_readings
            /\ GateUnchanged
            /\ capture'.last_sampled_phash = capture.last_sampled_phash]_vars
    /\ [](capture.pc \in {"phash", "ocr"} => capture.screenshot_bytes >= MIN_SCREENSHOT_BYTES)
    /\ [](capture.pc = "write" /\ capture.bundle_id # SystemBundle =>
            capture.screenshot_bytes >= MIN_SCREENSHOT_BYTES)

\* C27 witness: the gate holds a hash, nothing is persisted or queued, and the
\* last tick returned Ok: it is a tick that found its screenshot too small
C27_Witness ==
    /\ capture.pc = "select" /\ capture.outcome = "ok"
    /\ IsSome(capture.last_ocr_phash)
    /\ context_readings = << >>
    /\ dbQueue = << >>

\* ------------------------------------------------------------ session controller: capture and reads
\* the readings of session s that are persisted
ReadingsOf(s) == get_context_readings_for_session(context_readings, s)

\* C22: once end_timer has loaded the readings of a session for segmentation, the
\* capture loop of that session has ended and the readings persisted for the
\* session are those that were loaded: none is written after the load
C22_NoWriterAtLoad ==
    \A s \in SessionIds :
        IsSome(loadedFor[s]) =>
            /\ loops[s] = "none"
            /\ Len(ReadingsOf(s)) = Unwrap(loadedFor[s])

\* a ticker task of session t is alive
TickerAlive(t) == tickers[t].pc # "none"

\* C23: whenever the controller is Running and no start, end or cancel call is in
\* progress, the ticker of the session is alive and is the only one, and in a
\* capturing mode the capture loop of the session is running and is the only
\* one
C23_OneTickerOneLoop ==
    st.status = "Running" /\ ~InProgress /\ IsSome(st.session_id) =>
        /\ {t \in SessionIds : TickerAlive(t)} = {Unwrap(st.session_id)}
        /\ st.mode # "Break" =>
              {s \in SessionIds : loops[s] # "none"} = {Unwrap(st.session_id)}

\* C28: a read of the state taken while Running returns active_ms equal to the
\* baseline plus the time elapsed on the anchor at the moment of the read,
\* whether or not a tick has run since the time advanced
C28_ReadIsCurrent ==
    [][returned' = "get_state_ok" /\ st.status = "Running" =>
          /\ st'.status = "Running"
          /\ IsSome(st.running_anchor)
          /\ st'.active_ms = st.active_ms_baseline + Unwrap(st.running_anchor)]_vars

\* C28 witness: a read has just returned the whole time elapsed of a running
\* session whose ticker is parked
C28_Witness ==
    /\ returned = "get_state_ok"
    /\ st.status = "Running"
    /\ st.active_ms = MaxTime
    /\ \E t \in SessionIds : st.session_id = Some(t) /\ tickers[t].pc = "wait"

\* C29: when insert_segments_and_interruptions fails in end_timer, end_timer returns
\* an error while the session record stays Completed
C29_PersistFailureSurfaced ==
    [][\A p \in Callers :
          /\ call[p].pc = "end_mark" /\ call'[p].pc = "idle"
          /\ Unwrap(call[p].sid) \notin segmentsFor'
          => /\ returned' # "end_ok"
             /\ Unwrap(call[p].sid) \in DOMAIN db'
             /\ db'[Unwrap(call[p].sid)].status = "Completed"]_vars

\* ------------------------------------------------------------ store: properties
InsertErrors ==
    {"insert_err_begin", "insert_err_segment", "insert_err_interruption",
     "insert_err_commit"}

\* the rows of the insert_segments_and_interruptions call in progress
RowsOfCall(t) ==
    {t.segments[k] : k \in 1..Len(t.segments)}
        \cup {t.interruptions[k] : k \in 1..Len(t.interruptions)}

\* C30: insert_segments_and_interruptions is atomic: no persisted interruption is
\* without its persisted segment, no row of a call is persisted before the call
\* has committed, and a call in which a statement fails persists none of its rows
C30_AtomicInsert ==
    /\ [](\A it \in interruptions_table :
             \E sg \in segments_table : sg.id = it.segment_id)
    /\ [](tx.op = "insert" =>
             RowsOfCall(tx) \cap (segments_table \cup interruptions_table) = {})
    /\ [][storeReturned' \in InsertErrors =>
             RowsOfCall(tx) \cap (segments_table' \cup interruptions_table') = {}]_vars

\* a call failed at the INSERT of an interruption, after its segments were
\* inserted, while rows of an earlier call are persisted
C30_Witness ==
    /\ storeReturned = "insert_err_interruption"
    /\ interruptions_table # {}

\* ------------------------------------------------------------ end_timer: the back-fill
\* C31: after end_timer returned successfully, every reading of the session carries
\* the id of a persisted segment, that segment contains the reading's timestamp, and
\* it is the only persisted segment of the session that does
C31_BackfilledOnce ==
    returned = "end_ok" =>
        \A i \in DOMAIN context_readings :
            LET row == context_readings[i]
                containing == {g \in segments_table :
                                  /\ g.session_id = row.session_id
                                  /\ Inside(row.timestamp, g)}
            IN /\ IsSome(row.segment_id)
               /\ Cardinality(containing) = 1
               /\ \A g \in containing : g.id = Unwrap(row.segment_id)

\* ------------------------------------------------------------ startup recovery: properties
\* C32: when the recovery step has completed, no session record is Running: every
\* record that was Running is Interrupted with stopped_at the recovery time, and no
\* record is gone
C32_NoneLeftRunning ==
    [][returned' = "recovered" =>
          /\ DOMAIN db' = DOMAIN db
          /\ \A s \in DOMAIN db :
                /\ db'[s].status # "Running"
                /\ db[s].status = "Running" =>
                      /\ db'[s].status = "Interrupted"
                      /\ db'[s].stopped_at = Some(now')]_vars

\* ------------------------------------------------------------ break mode: properties
\* the sessions started so far that have no record: start_timer inserts the record
\* in the step that draws the id, except in break mode
BreakSessions == (1..(nextSid - 1)) \ DOMAIN db

\* caller p is inside a command on a break session
IsBreakCall(p) ==
    /\ call[p].pc # "idle"
    /\ IsSome(call[p].sid)
    /\ Unwrap(call[p].sid) \in BreakSessions

\* C33: for a session in break mode no record is inserted by start_timer, no step
\* of its start, end or cancel changes a record, the capture loops, the segments
\* or loads readings, its capture loop is never spawned, its auto-completion does
\* not stop the capture and spawns no write, and the progress write of a tick
\* changes no record
C33_BreakLeavesNoTrace ==
    /\ [][\A p \in Callers :
             Accepts(p, {"start_begin"}) /\ call'[p].mode = "Break" => db' = db]_vars
    /\ [](\A s \in BreakSessions :
             /\ loops[s] = "none"
             /\ sensing # Some(s)
             /\ s \notin segmentsFor
             /\ loadedFor[s] = None)
    /\ [][\A p \in Callers :
             IsBreakCall(p) /\ call'[p] # call[p] =>
                 UNCHANGED << db, loops, sensing, segmentsFor, loadedFor,
                              context_readings >>]_vars
    /\ [](\A t \in SessionIds :
             tickers[t].pc \in {"stop_sensing", "join"} => tickers[t].final.mode # "Break")
    /\ [][\A t \in SessionIds :
             /\ tickers[t].pc = "stopping" /\ tickers'[t].pc = "none"
             /\ ~tickers[t].aborted /\ st'.mode = "Break"
             => UNCHANGED << db, pending, loops, sensing >>]_vars
    /\ [][\A w \in pending \ pending' : w.sid \in BreakSessions => db' = db]_vars

\* the first session was a break session that no other command overlapped, and
\* end_timer has just ended it: there is no record and no write in flight
C33_Witness ==
    /\ returned = "end_ok_break"
    /\ nextSid = 2
    /\ DOMAIN db = {}
    /\ pending = {}
    /\ overlaps = 0

\* ------------------------------------------------------------ controller state: properties
\* C34: in every reachable state a status other than Idle comes with a session id
\* (without one end_timer and cancel_timer return "missing session id" and leave the
\* status as it is, and start_timer is rejected)
C34_NonIdleHasSession ==
    st.status # "Idle" => IsSome(st.session_id)

\* C35: a session record that is Completed or Cancelled keeps its status and its
\* active_ms in every later step
C35_TerminalIsFinal ==
    [][\A s \in DOMAIN db :
          db[s].status \in {"Completed", "Cancelled"} =>
              /\ db'[s].status = db[s].status
              /\ db'[s].active_ms = db[s].active_ms]_vars

\* C36: within one session, every call of run_ocr but the first comes at least the
\* cooldown (OCR_COOLDOWN_SECS) after the call before it, whether that call
\* succeeded or failed
C36_CooldownBetweenRuns ==
    IsSome(lastRunOcr.gap) => Unwrap(lastRunOcr.gap) >= OCR_COOLDOWN_SECS

\* C37: the worker executes the commands one at a time in the order of their
\* send, and every caller of execute that stays at its await is returned, once,
\* the result of its own command
C37_WorkerInOrder ==
    /\ [](/\ \A k \in DOMAIN conn_log : conn_log[k] = k
          /\ IsSome(worker_task) => Unwrap(worker_task) = Len(conn_log) + 1
          /\ \A k \in DOMAIN command_rx :
                 command_rx[k] = Len(conn_log) + (IF IsSome(worker_task) THEN 1 ELSE 0) + k)
    /\ [](\A p \in Callers : \A k \in DOMAIN execCalls[p].returned :
             LET r == execCalls[p].returned[k]
             IN /\ r.value.command = r.command
                /\ r.command \in DOMAIN conn_log
                /\ r.value.after = r.command - 1
                /\ \A q \in Callers : \A j \in DOMAIN execCalls[q].returned :
                       execCalls[q].returned[j].command = r.command => q = p /\ j = k)
    /\ [][\A p \in Callers :
              execCalls[p].pc = "await" /\ execCalls'[p].pc = "idle"
              /\ reply_rx'[Unwrap(execCalls[p].command)].state # "dropped"
              => /\ Len(execCalls'[p].returned) = Len(execCalls[p].returned) + 1
                 /\ execCalls'[p].returned[Len(execCalls'[p].returned)].command
                        = Unwrap(execCalls[p].command)]_vars
    /\ \A p \in Callers : \A c \in 1..MaxCommands :
           (execCalls[p].pc = "await" /\ execCalls[p].command = Some(c))
               ~> (execCalls[p].command # Some(c))

\* every command has been executed, one of them with an error, and each caller
\* has been returned a result
C37_Witness ==
    /\ \A p \in Callers : Len(execCalls[p].returned) >= 1
    /\ Len(conn_log) = MaxCommands
    /\ \E p \in Callers : \E k \in DOMAIN execCalls[p].returned :
           execCalls[p].returned[k].value.result = "err"

\* C38: a start_timer call that returns an error (zero target, controller not
\* Idle, failed session insert, failed start of the capture loop) leaves the
\* status as it was before the call, and leaves no Running record of its own
C38_FailedStartLeavesNothing ==
    [][/\ returned' \in {"start_err_target", "start_err_active", "start_err_insert"}
            => st'.status = st.status /\ db' = db
       /\ \A p \in Callers :
              call[p].pc = "start_sensing" /\ returned' = "start_err_sensing"
              => /\ st'.status = "Idle"
                 /\ \A s \in DOMAIN db' :
                        Some(s) = call[p].sid => db'[s].status # "Running"]_vars

\* C39: while one session stays Running, the active_ms that external reads are
\* returned and ticker snapshots carry (stored in the state by the read or the
\* snapshot) never decreases, from the begin_session that marked it Running on
C39_ActiveNeverDecreases ==
    [][st.status = "Running" /\ st'.status = "Running" /\ st'.session_id = st.session_id
          => st'.active_ms >= st.active_ms]_vars

\* C40: for every segment list handed to sandwich_merge, the number of segments
\* it returns plus twice the number of interruptions it recorded is the number
\* of segments it was given; the first segment returned starts where the first
\* one given starts and the last returned ends where the last one given ends
C40_MergeAccounts ==
    MergeDone =>
        LET input == segOut.segments_with_readings
            output == segOut.segments
        IN /\ Len(output) + 2 * Len(segOut.interruptions) = Len(input)
           /\ input # << >> =>
                 /\ output # << >>
                 /\ output[1].start_time = input[1].start_time
                 /\ output[Len(output)].end_time = input[Len(input)].end_time

\* C40 witness: a list of MaxSegments segments of which sandwich_merge folded some
\* and left others as they were
C40_Witness ==
    /\ MergeDone
    /\ Len(segOut.segments_with_readings) = MaxSegments
    /\ Len(segOut.interruptions) >= 1
    /\ Len(segOut.segments) >= 3

====
